---- MODULE Spec2Model ----
(***************************************************************************)
(* State-machine model of easy-llm-accessor: the TTL/size bounded cache    *)
(* store (CacheMixin), the retry policy and the conversation ledger of     *)
(* BaseProvider, and the Ollama streaming reconstructors.                  *)
(*                                                                         *)
(* Each subsystem has its own specification over the shared variables:     *)
(*   SpecCache   CacheMixin: setCache / getCache / hasCache / deleteCache  *)
(*   SpecFill    CacheMixin: filling one cache with setCache               *)
(*   SpecLedger  BaseProvider: addToHistory, clearHistory, sendChat        *)
(*   SpecRetry   BaseProvider: makeRequestWithRetry                        *)
(*   SpecStream  live streaming: streamChat, _createGenericStream          *)
(*   SpecBatch   OllamaProvider: makeRequest, _parseStreamingResponse      *)
(***************************************************************************)
EXTENDS Integers, Sequences, FiniteSets, TLC

VARIABLES
    now,            \* Date.now(), the wall clock read by every operation
    caches,         \* CacheMixin._caches: name -> cache object (or NoCache)
    cleanupInterval,\* CacheMixin._cleanupInterval
    lastOp,         \* the cache operation that returned last: arguments and result
    conversationHistory, \* BaseProvider._conversationHistory
    historySize,    \* BaseProvider._historySize
    maxHistorySize, \* BaseProvider._maxHistorySize
    calls,          \* the tracked calls (sendChat): where each one stands
    eventClock,     \* history: counts call starts and completions, to order them
    retryAttempts,  \* BaseProvider._retryAttempts
    retryDelay,     \* BaseProvider._retryDelay
    request,        \* one makeRequestWithRetry call: its position, attempt and outcome
    stream,         \* one live stream: the closure of its handlers and what it emitted
    responseText,   \* the raw body the last makeRequest received
    finalResponse,  \* what the last makeRequest returned
    requestCount,   \* makeRequest calls made
    returned,       \* the array a getHistory call returned, as the caller holds it
    dispatch,       \* one unified operation of a provider: its position and outcome
    payload,        \* the raw backend payload handed to extractContent
    extracted,      \* what extractContent did with it: the content, or the throw
    callOptions,    \* the options of one call: given, merged with the defaults, validated
    health          \* BaseProvider._healthStatus, the metrics and the checks under way

cacheVars == <<now, caches, cleanupInterval, lastOp>>
ledgerVars == <<conversationHistory, historySize, maxHistorySize, calls, eventClock>>
retryVars == <<retryAttempts, retryDelay, request>>
streamVars == <<stream>>
batchVars == <<responseText, finalResponse, requestCount>>
snapshotVars == <<returned>>
dispatchVars == <<dispatch>>
extractVars == <<payload, extracted>>
optionsVars == <<callOptions>>
healthVars == <<health>>
nonCacheVars == <<ledgerVars, retryVars, streamVars, batchVars,
                  snapshotVars, dispatchVars, extractVars, optionsVars, healthVars>>
nonLedgerVars == <<cacheVars, retryVars, streamVars, batchVars,
                   snapshotVars, dispatchVars, extractVars, optionsVars, healthVars>>
nonRetryVars == <<cacheVars, ledgerVars, streamVars, batchVars,
                  snapshotVars, dispatchVars, extractVars, optionsVars, healthVars>>
nonStreamVars == <<cacheVars, ledgerVars, retryVars, batchVars,
                   snapshotVars, dispatchVars, extractVars, optionsVars, healthVars>>
nonBatchVars == <<ledgerVars, retryVars, streamVars,
                  snapshotVars, dispatchVars, extractVars, optionsVars, healthVars>>
nonSnapshotVars == <<cacheVars, retryVars, streamVars, batchVars, dispatchVars, extractVars,
                     optionsVars, healthVars>>
nonDispatchVars == <<cacheVars, streamVars, batchVars, snapshotVars, extractVars,
                     optionsVars, healthVars>>
nonExtractVars == <<cacheVars, ledgerVars, retryVars, streamVars, batchVars,
                    snapshotVars, dispatchVars, optionsVars, healthVars>>
nonOptionsVars == <<cacheVars, ledgerVars, retryVars, streamVars, batchVars,
                    snapshotVars, dispatchVars, extractVars, healthVars>>
nonHealthVars == <<cacheVars, ledgerVars, retryVars, streamVars, batchVars,
                   snapshotVars, dispatchVars, extractVars, optionsVars>>

vars == <<now, caches, cleanupInterval, lastOp,
          conversationHistory, historySize, maxHistorySize, calls, eventClock,
          retryAttempts, retryDelay, request, stream,
          responseText, finalResponse, requestCount,
          returned, dispatch, payload, extracted, callOptions, health>>

----------------------------------------------------------------------------
(* Bounds of the model *)

NumKeys == 2        \* cache keys are 1..NumKeys
MaxTime == 2        \* the clock runs from 0 to MaxTime
MaxTtl == 1         \* ttl options are 1..MaxTtl (0: option not given)
MaxSizeOpt == 1     \* maxSize options are 1..MaxSizeOpt (0: option not given)
MaxSets == 2        \* set calls per cache
MaxReads == 1       \* counted get calls per cache
MaxFillSize == 5    \* SpecFill: maxSize is 1..MaxFillSize, with MaxFillSize + 1 keys
SweepInterval == 1  \* the cleanupInterval option the store is constructed with

NumCalls == 2       \* concurrent tracked calls
MaxHistoryOpt == 5  \* maxHistorySize options are 1..MaxHistoryOpt (0: not given)
MaxAppends == 6     \* turns appended to the ledger
MaxSnapshotTurns == 3 \* SpecSnapshot: turns appended to the ledger
MaxMutations == 2   \* SpecSnapshot: changes the caller makes to a returned array

MaxAttemptsOpt == 4 \* retryAttempts options are 1..MaxAttemptsOpt (0: not given)
MaxDelayOpt == 1    \* retryDelay options are 1..MaxDelayOpt (0: not given)

MaxStreamLines == 3 \* lines the transport delivers on one stream

MaxBodyLines == 3   \* lines of a raw body
MaxRequests == 2    \* makeRequest calls of one provider

(* Program constants *)

DefaultExpiry == 300000     \* this._defaultExpiry = 5 * 60 * 1000
DefaultMaxSize == 100       \* this._defaultMaxSize
DefaultCleanupInterval == 120000
DefaultMaxHistorySize == 100    \* options.maxHistorySize || 100
DefaultRetryAttempts == 3       \* options.retryAttempts || 3
DefaultRetryDelay == 1000       \* options.retryDelay || 1000

----------------------------------------------------------------------------
(* Cache Store: src/src/providers/mixins/cache-mixin.js *)

CacheNames == {"test"}
Keys == 1..NumKeys
NoCache == [absent |-> TRUE]

\* a || b of JavaScript on numbers: b when a is 0 (falsy)
OrElse(a, b) == IF a # 0 THEN a ELSE b

\* createCache(name, options): the cache object it stores
CreateCacheObject(options, t) ==
    [ data |-> << >>,
      expiry |-> OrElse(options.expiry, DefaultExpiry),
      maxSize |-> OrElse(options.maxSize, DefaultMaxSize),
      lastCleanup |-> t,
      stats |-> [hits |-> 0, misses |-> 0, sets |-> 0, deletes |-> 0] ]

\* Map.prototype.get / has on the insertion-ordered entry list
KeyIndex(data, key) ==
    IF \E i \in 1..Len(data) : data[i].key = key
    THEN CHOOSE i \in 1..Len(data) : data[i].key = key
    ELSE 0

HasKey(data, key) == KeyIndex(data, key) # 0

\* Map.prototype.set: an existing key keeps its position, a new key goes last
MapSet(data, entry) ==
    IF HasKey(data, entry.key)
    THEN [data EXCEPT ![KeyIndex(data, entry.key)] = entry]
    ELSE Append(data, entry)

\* Map.prototype.delete
MapDelete(data, key) == SelectSeq(data, LAMBDA e : e.key # key)

\* mutant: an entry already counts as expired at its expiry instant
IsExpired_AtExpiry(entry, t) == entry.expiry # 0 /\ t >= entry.expiry

\* entry.expiry && now > entry.expiry
IsExpired(entry, t) == entry.expiry # 0 /\ t > entry.expiry

\* Array.prototype.sort((a, b) => a.timestamp - b.timestamp), a stable sort
RECURSIVE InsertByTimestamp(_, _)
InsertByTimestamp(sorted, e) ==
    IF sorted = << >> THEN <<e>>
    ELSE IF Head(sorted).timestamp <= e.timestamp
         THEN <<Head(sorted)>> \o InsertByTimestamp(Tail(sorted), e)
         ELSE <<e>> \o sorted

RECURSIVE SortByTimestamp(_)
SortByTimestamp(entries) ==
    IF entries = << >> THEN << >>
    ELSE InsertByTimestamp(SortByTimestamp(SubSeq(entries, 1, Len(entries) - 1)),
                           entries[Len(entries)])

\* Math.floor(cache.maxSize * 0.2)
RemoveCount(maxSize) == maxSize \div 5

\* the while loop of _trimCache: delete the first entry of the Map until under the limit
RECURSIVE TrimLoop(_, _)
TrimLoop(data, maxSize) ==
    IF Len(data) >= maxSize /\ Len(data) > 0
    THEN TrimLoop(Tail(data), maxSize)
    ELSE data

\* _trimCache(cache)
TrimCache(cache) ==
    LET sorted == SortByTimestamp(cache.data)
        n == IF RemoveCount(cache.maxSize) < Len(sorted)
             THEN RemoveCount(cache.maxSize) ELSE Len(sorted)
        oldest == {sorted[i].key : i \in 1..n}
        kept == SelectSeq(cache.data, LAMBDA e : e.key \notin oldest)
        left == TrimLoop(kept, cache.maxSize)
    IN [cache EXCEPT !.data = left,
                     !.stats.deletes = @ + (Len(cache.data) - Len(left))]

\* mutant: the sweep drops expired entries without counting them
CleanupCache_Uncounted(cache, t) ==
    LET live == SelectSeq(cache.data, LAMBDA e : ~IsExpired(e, t))
    IN [cache EXCEPT !.data = live, !.lastCleanup = t]

\* _cleanupCache(name): drop every expired entry, stamp lastCleanup
CleanupCache(cache, t) ==
    LET live == SelectSeq(cache.data, LAMBDA e : ~IsExpired(e, t))
    IN [cache EXCEPT !.data = live,
                     !.stats.deletes = @ + (Len(cache.data) - Len(live)),
                     !.lastCleanup = t]

\* mutant: the sweep is never started
ScheduleCleanup_Never(cache, t, interval) == cache

\* _scheduleCleanup(name)
ScheduleCleanup(cache, t, interval) ==
    IF t - cache.lastCleanup > interval THEN CleanupCache(cache, t) ELSE cache

\* mutant: the size check of setCache trims only once the limit is exceeded
NeedsTrim_OverLimit(cache) == Len(cache.data) > cache.maxSize

\* the size check of setCache
NeedsTrim(cache) == Len(cache.data) >= cache.maxSize

\* setCache(name, key, value, options) on the cache object
SetCacheObject(cache0, key, value, options, t, interval) ==
    LET expiry == OrElse(options.expiry, cache0.expiry)
        cache1 == IF NeedsTrim(cache0) THEN TrimCache(cache0) ELSE cache0
        entry == [key |-> key, value |-> value, timestamp |-> t,
                  expiry |-> IF expiry # 0 THEN t + expiry ELSE 0]
        cache2 == [cache1 EXCEPT !.data = MapSet(@, entry), !.stats.sets = @ + 1]
    IN ScheduleCleanup(cache2, t, interval)

\* the subsystems a specification does not exercise stay as constructed
IdleCache ==
    /\ now = 0
    /\ caches = [n \in CacheNames |-> NoCache]
    /\ cleanupInterval = DefaultCleanupInterval
    /\ lastOp = [op |-> "none", name |-> "", key |-> 0, ttl |-> 0, result |-> 0]

IdleLedger ==
    /\ conversationHistory = << >>
    /\ historySize = 0
    /\ maxHistorySize = DefaultMaxHistorySize
    /\ calls = << >>
    /\ eventClock = 0

IdleRetry ==
    /\ retryAttempts = DefaultRetryAttempts
    /\ retryDelay = DefaultRetryDelay
    /\ request = [pc |-> "idle"]

IdleStream == stream = [transport |-> "none"]

IdleBatch ==
    /\ responseText = << >>
    /\ finalResponse = [content |-> << >>]
    /\ requestCount = 0

IdleSnapshot == returned = [taken |-> FALSE]

IdleDispatch == dispatch = [pc |-> "idle"]

IdleExtract ==
    /\ payload = [absent |-> TRUE]
    /\ extracted = [called |-> FALSE]

IdleOptions == callOptions = [pc |-> "idle"]

IdleHealth == health = [pc |-> "idle"]

NoOp == [op |-> "none", name |-> "", key |-> 0, ttl |-> 0, result |-> 0]

\* an operation, its arguments (ttl: the expiry option of a set, 0 when not given) and
\* what it returned: a value is a positive number, null and false are 0, true is 1
Called(op, name, key, ttl, result) ==
    [op |-> op, name |-> name, key |-> key, ttl |-> ttl, result |-> result]

Returned(op, name, key, result) == Called(op, name, key, 0, result)

\* after new CacheMixin({cleanupInterval: SweepInterval}): no cache exists yet
InitCache ==
    /\ now = 0
    /\ caches = [n \in CacheNames |-> NoCache]
    /\ cleanupInterval = OrElse(SweepInterval, DefaultCleanupInterval)
    /\ lastOp = NoOp
    /\ IdleLedger /\ IdleRetry /\ IdleStream /\ IdleBatch
    /\ IdleSnapshot /\ IdleDispatch /\ IdleExtract /\ IdleOptions /\ IdleHealth

\* the clock advances between operations
Tick ==
    /\ now < MaxTime
    /\ now' = now + 1
    /\ lastOp' = NoOp
    /\ UNCHANGED <<caches, cleanupInterval>>

\* createCache(name, {expiry, maxSize})
CreateCache(name, options) ==
    /\ caches[name] = NoCache
    /\ caches' = [caches EXCEPT ![name] = CreateCacheObject(options, now)]
    /\ lastOp' = Returned("create", name, 0, 0)
    /\ UNCHANGED <<now, cleanupInterval>>

\* setCache(name, key, value, {expiry}); the n-th set of a cache writes the value n,
\* so every value written is distinct
SetCache(name, key, ttl) ==
    LET options == [expiry |-> ttl, maxSize |-> 0]
        cache0 == IF caches[name] = NoCache
                  THEN CreateCacheObject(options, now) ELSE caches[name]
        value == cache0.stats.sets + 1
    IN /\ caches' = [caches EXCEPT ![name] =
                        SetCacheObject(cache0, key, value, options, now, cleanupInterval)]
       /\ lastOp' = Called("set", name, key, ttl, value)
       /\ UNCHANGED <<now, cleanupInterval>>

\* mutant: a hit refreshes the entry's timestamp, as an LRU cache would
GetCacheObject_Touch(cache, key, t) ==
    LET i == KeyIndex(cache.data, key)
    IN IF i = 0
       THEN <<[cache EXCEPT !.stats.misses = @ + 1], 0>>
       ELSE IF IsExpired(cache.data[i], t)
       THEN <<[cache EXCEPT !.data = MapDelete(@, key), !.stats.deletes = @ + 1], 0>>
       ELSE <<[cache EXCEPT !.stats.hits = @ + 1, !.data[i].timestamp = t],
              cache.data[i].value>>

\* getCache(name, key) on the cache object: <<cache after, value returned>>
GetCacheObject(cache, key, t) ==
    LET i == KeyIndex(cache.data, key)
    IN IF i = 0
       THEN <<[cache EXCEPT !.stats.misses = @ + 1], 0>>
       ELSE IF IsExpired(cache.data[i], t)
       THEN <<[cache EXCEPT !.data = MapDelete(@, key), !.stats.deletes = @ + 1], 0>>
       ELSE <<[cache EXCEPT !.stats.hits = @ + 1], cache.data[i].value>>

\* hasCache(name, key) on the cache object: <<cache after, 1 for true or 0 for false>>
HasCacheObject(cache, key, t) ==
    LET i == KeyIndex(cache.data, key)
    IN IF i = 0
       THEN <<cache, 0>>
       ELSE IF IsExpired(cache.data[i], t)
       THEN <<[cache EXCEPT !.data = MapDelete(@, key), !.stats.deletes = @ + 1], 0>>
       ELSE <<cache, 1>>

\* mutant: a get of a cache that does not exist creates it, as the getCache(name,
\* options) overload of the class would
GetCache_Creates(name, key) ==
    LET cache0 == IF caches[name] = NoCache
                  THEN CreateCacheObject([expiry |-> 0, maxSize |-> 0], now)
                  ELSE caches[name]
    IN /\ caches' = [caches EXCEPT ![name] = GetCacheObject(cache0, key, now)[1]]
       /\ lastOp' = Returned("get", name, key, GetCacheObject(cache0, key, now)[2])
       /\ UNCHANGED <<now, cleanupInterval>>

\* getCache(name, key)
GetCache(name, key) ==
    IF caches[name] = NoCache
    THEN /\ lastOp' = Returned("get", name, key, 0)
         /\ UNCHANGED <<now, caches, cleanupInterval>>
    ELSE /\ caches' = [caches EXCEPT ![name] = GetCacheObject(@, key, now)[1]]
         /\ lastOp' = Returned("get", name, key, GetCacheObject(caches[name], key, now)[2])
         /\ UNCHANGED <<now, cleanupInterval>>

\* hasCache(name, key)
HasCache(name, key) ==
    IF caches[name] = NoCache
    THEN /\ lastOp' = Returned("has", name, key, 0)
         /\ UNCHANGED <<now, caches, cleanupInterval>>
    ELSE /\ caches' = [caches EXCEPT ![name] = HasCacheObject(@, key, now)[1]]
         /\ lastOp' = Returned("has", name, key, HasCacheObject(caches[name], key, now)[2])
         /\ UNCHANGED <<now, cleanupInterval>>

\* deleteCache(name, key)
DeleteCache(name, key) ==
    IF caches[name] # NoCache /\ HasKey(caches[name].data, key)
    THEN /\ caches' = [caches EXCEPT ![name].data = MapDelete(@, key),
                                     ![name].stats.deletes = @ + 1]
         /\ lastOp' = Returned("delete", name, key, 1)
         /\ UNCHANGED <<now, cleanupInterval>>
    ELSE /\ lastOp' = Returned("delete", name, key, 0)
         /\ UNCHANGED <<now, caches, cleanupInterval>>

\* counters of a cache that may not exist yet
SetsOf(name) == IF caches[name] = NoCache THEN 0 ELSE caches[name].stats.sets
ReadsOf(name) ==
    IF caches[name] = NoCache THEN 0
    ELSE caches[name].stats.hits + caches[name].stats.misses

\* the keys a caller may set next: keys are numbered in order of their first use
\* (the store only ever compares keys for equality)
NextKeys(name, numKeys) == {k \in 1..numKeys : k <= SetsOf(name) + 1}

NextCache ==
    \/ Tick /\ UNCHANGED nonCacheVars
    \/ \E n \in CacheNames, m \in 0..MaxSizeOpt, e \in {0, MaxTtl} :
          CreateCache(n, [expiry |-> e, maxSize |-> m]) /\ UNCHANGED nonCacheVars
    \/ \E n \in CacheNames : \E k \in NextKeys(n, NumKeys), ttl \in 0..MaxTtl :
          SetsOf(n) < MaxSets /\ SetCache(n, k, ttl) /\ UNCHANGED nonCacheVars
    \/ \E n \in CacheNames, k \in Keys :
          ReadsOf(n) < MaxReads /\ GetCache(n, k) /\ UNCHANGED nonCacheVars
    \/ \E n \in CacheNames, k \in Keys : HasCache(n, k) /\ UNCHANGED nonCacheVars
    \/ \E n \in CacheNames, k \in Keys : DeleteCache(n, k) /\ UNCHANGED nonCacheVars

SpecCache == InitCache /\ [][NextCache]_vars

\* Filling a cache: a store whose cache "test" was created with maxSize m, then only
\* set calls (no ttl option) and clock ticks
InitFill ==
    /\ now = 0
    /\ cleanupInterval = OrElse(SweepInterval, DefaultCleanupInterval)
    /\ \E m \in 1..MaxFillSize :
          caches = [n \in CacheNames |->
                       CreateCacheObject([expiry |-> 0, maxSize |-> m], 0)]
    /\ lastOp = NoOp
    /\ IdleLedger /\ IdleRetry /\ IdleStream /\ IdleBatch
    /\ IdleSnapshot /\ IdleDispatch /\ IdleExtract /\ IdleOptions /\ IdleHealth

NextFill ==
    \/ Tick /\ UNCHANGED nonCacheVars
    \/ \E n \in CacheNames : \E k \in NextKeys(n, MaxFillSize + 1) :
          SetsOf(n) < MaxFillSize + 2 /\ SetCache(n, k, 0) /\ UNCHANGED nonCacheVars

SpecFill == InitFill /\ [][NextFill]_vars

\* A store with two named caches, as in the test 'should clear all caches': every
\* operation of the store, on either cache, at one instant
StoreNames == {"cache1", "cache2"}

StoreKeys == {1, 2}     \* 'key1', 'key2'

MaxStoreSets == 1   \* SpecStore: set calls per cache between two clears

\* getCacheStats(name) on the cache object: the report it returns; hitRate is the
\* pair <<hits, hits + misses>>, <<0, 1>> for the 0 that NaN || 0 gives
GetCacheStatsObject(cache, name, t) ==
    LET active == SelectSeq(cache.data, LAMBDA e : e.expiry = 0 \/ t <= e.expiry)
        reads == cache.stats.hits + cache.stats.misses
    IN [name |-> name, size |-> Len(active), maxSize |-> cache.maxSize,
        hits |-> cache.stats.hits, misses |-> cache.stats.misses,
        sets |-> cache.stats.sets, deletes |-> cache.stats.deletes,
        hitRate |-> IF reads = 0 THEN <<0, 1>> ELSE <<cache.stats.hits, reads>>,
        lastCleanup |-> cache.lastCleanup, age |-> t - cache.lastCleanup]

\* getCacheStats(name): null (0) for a cache that does not exist
GetCacheStats(name) ==
    /\ lastOp' = Returned("stats", name, 0,
                          IF caches[name] = NoCache THEN 0
                          ELSE GetCacheStatsObject(caches[name], name, now))
    /\ UNCHANGED <<now, caches, cleanupInterval>>

\* mutant: clearCache empties the entries and leaves the counters
ClearCacheObject_KeepsStats(cache, t) ==
    [cache EXCEPT !.data = << >>, !.lastCleanup = t]

\* clearCache(name) on the cache object
ClearCacheObject(cache, t) ==
    [cache EXCEPT !.data = << >>,
                  !.stats = [hits |-> 0, misses |-> 0, sets |-> 0, deletes |-> 0],
                  !.lastCleanup = t]

\* clearAllCaches(): clearCache for every cache of the store
ClearAllCaches ==
    /\ caches' = [n \in DOMAIN caches |->
                     IF caches[n] = NoCache THEN NoCache
                     ELSE ClearCacheObject(caches[n], now)]
    /\ lastOp' = Returned("clearAll", "", 0, 0)
    /\ UNCHANGED <<now, cleanupInterval>>

\* the store of SpecCache with clearAllCaches as one more operation
NextStats ==
    \/ NextCache
    \/ ClearAllCaches /\ UNCHANGED nonCacheVars

SpecStats == InitCache /\ [][NextStats]_vars

\* after new CacheMixin({cleanupInterval: SweepInterval}): no cache exists yet
InitStore ==
    /\ now = 0
    /\ caches = [n \in StoreNames |-> NoCache]
    /\ cleanupInterval = OrElse(SweepInterval, DefaultCleanupInterval)
    /\ lastOp = NoOp
    /\ IdleLedger /\ IdleRetry /\ IdleStream /\ IdleBatch
    /\ IdleSnapshot /\ IdleDispatch /\ IdleExtract /\ IdleOptions /\ IdleHealth

NextStore ==
    \/ \E n \in StoreNames :
          CreateCache(n, [expiry |-> 0, maxSize |-> 0]) /\ UNCHANGED nonCacheVars
    \/ \E n \in StoreNames, k \in StoreKeys :
          SetsOf(n) < MaxStoreSets /\ SetCache(n, k, 0) /\ UNCHANGED nonCacheVars
    \/ \E n \in StoreNames, k \in StoreKeys :
          ReadsOf(n) < MaxReads /\ GetCache(n, k) /\ UNCHANGED nonCacheVars
    \/ \E n \in StoreNames, k \in StoreKeys : HasCache(n, k) /\ UNCHANGED nonCacheVars
    \/ \E n \in StoreNames, k \in StoreKeys : DeleteCache(n, k) /\ UNCHANGED nonCacheVars
    \/ \E n \in StoreNames : GetCacheStats(n) /\ UNCHANGED nonCacheVars
    \/ ClearAllCaches /\ UNCHANGED nonCacheVars

SpecStore == InitStore /\ [][NextStore]_vars

----------------------------------------------------------------------------
(* Conversation Ledger and tracked calls: src/unnamed/part_001 (BaseProvider) *)

Calls == 1..NumCalls

\* Array.isArray(content) ? content : [{ type: 'text', text: content }]
\* (the callers modelled here pass strings: a message or response.content)
WrapContent(text) == <<[type |-> "text", text |-> text]>>

\* the turn addToHistory pushes
Turn(role, content, t) == [role |-> role, content |-> WrapContent(content), timestamp |-> t]

\* mutant: one turn is evicted at a time
HistoryRemoveCount_Single(maxSize) == 1

\* Math.floor(this._maxHistorySize * 0.2)
HistoryRemoveCount(maxSize) == maxSize \div 5

\* mutant: the newest turns are removed
SpliceFront_FromEnd(seq, n) ==
    SubSeq(seq, 1, Len(seq) - (IF n < Len(seq) THEN n ELSE Len(seq)))

\* Array.prototype.splice(0, n): the array without its first n elements
SpliceFront(seq, n) == SubSeq(seq, (IF n < Len(seq) THEN n ELSE Len(seq)) + 1, Len(seq))

\* mutant: the counter is not adjusted when turns are evicted
AddToHistoryObject_SizeKept(history, size, maxSize, role, content, t) ==
    LET trim == size >= maxSize
        removeCount == HistoryRemoveCount(maxSize)
        history1 == IF trim THEN SpliceFront(history, removeCount) ELSE history
    IN <<Append(history1, Turn(role, content, t)), size + 1>>

\* addToHistory(role, content) on <<_conversationHistory, _historySize>>
AddToHistoryObject(history, size, maxSize, role, content, t) ==
    LET trim == size >= maxSize
        removeCount == HistoryRemoveCount(maxSize)
        history1 == IF trim THEN SpliceFront(history, removeCount) ELSE history
        size1 == IF trim THEN size - removeCount ELSE size
    IN <<Append(history1, Turn(role, content, t)), size1 + 1>>

\* what the message of call c and the response to it are called
Message(c) == c
Response(c) == c

\* addToHistory(role, content)
AddToHistory(role, content) ==
    LET r == AddToHistoryObject(conversationHistory, historySize, maxHistorySize,
                                role, content, now)
    IN /\ conversationHistory' = r[1]
       /\ historySize' = r[2]

\* after new BaseProvider(config, name, {maxHistorySize: m})
InitLedger ==
    /\ conversationHistory = << >>
    /\ historySize = 0
    /\ \E m \in 0..MaxHistoryOpt : maxHistorySize = OrElse(m, DefaultMaxHistorySize)
    /\ calls = [c \in Calls |-> [pc |-> "idle", startedAt |-> 0, finishedAt |-> 0]]
    /\ eventClock = 0
    /\ IdleCache /\ IdleRetry /\ IdleStream /\ IdleBatch
    /\ IdleSnapshot /\ IdleDispatch /\ IdleExtract /\ IdleOptions /\ IdleHealth

\* a caller appends a turn directly: addToHistory('user', content); the ledger never
\* looks at the role, so one role stands for both
CallerAppends(role) ==
    /\ AddToHistory(role, 0)
    /\ UNCHANGED <<maxHistorySize, calls, eventClock, nonLedgerVars>>

\* clearHistory()
ClearHistory ==
    /\ conversationHistory # << >>
    /\ conversationHistory' = << >>
    /\ historySize' = 0
    /\ UNCHANGED <<maxHistorySize, calls, eventClock, nonLedgerVars>>

\* mutant: the user turn is appended twice
TurnsAt_UserTwice(phase) ==
    IF phase = "start" THEN <<"user", "user">>
    ELSE IF phase = "end" THEN <<"assistant">>
    ELSE << >>

\* mutant: both turns of a call are appended when the call completes
TurnsAt_Completion(phase) ==
    IF phase = "start" THEN << >>
    ELSE IF phase = "end" THEN <<"user", "assistant">>
    ELSE << >>

\* mutant: the assistant turn is appended whether the call resolved or rejected
TurnsAt_Settled(phase) ==
    IF phase = "start" THEN <<"user">> ELSE <<"assistant">>

\* the turns sendChat / sendVision append before they await this.chat / this.vision
\* ("start"), after the call has resolved ("end") and in the catch block ("rejected")
TurnsAt(phase) ==
    IF phase = "start" THEN <<"user">>
    ELSE IF phase = "end" THEN <<"assistant">>
    ELSE << >>

\* addToHistory for each of the roles in turn, on <<_conversationHistory, _historySize>>
RECURSIVE AppendTurns(_, _, _, _, _)
AppendTurns(hs, maxSize, roles, content, t) ==
    IF roles = << >> THEN hs
    ELSE AppendTurns(AddToHistoryObject(hs[1], hs[2], maxSize, Head(roles), content, t),
                     maxSize, Tail(roles), content, t)

\* sendChat(messages, options) up to its await: the user turn is appended
SendChatStarts(c) ==
    LET r == AppendTurns(<<conversationHistory, historySize>>, maxHistorySize,
                         TurnsAt("start"), Message(c), now)
    IN /\ calls[c].pc = "idle"
       /\ conversationHistory' = r[1]
       /\ historySize' = r[2]
       /\ eventClock' = eventClock + 1
       /\ calls' = [calls EXCEPT ![c] = [pc |-> "awaiting", startedAt |-> eventClock + 1,
                                          finishedAt |-> 0]]
       /\ UNCHANGED <<maxHistorySize, nonLedgerVars>>

\* this.chat resolves: sendChat appends the assistant turn and returns the response
SendChatResolves(c) ==
    LET r == AppendTurns(<<conversationHistory, historySize>>, maxHistorySize,
                         TurnsAt("end"), Response(c), now)
    IN /\ calls[c].pc = "awaiting"
       /\ conversationHistory' = r[1]
       /\ historySize' = r[2]
       /\ eventClock' = eventClock + 1
       /\ calls' = [calls EXCEPT ![c].pc = "resolved", ![c].finishedAt = eventClock + 1]
       /\ UNCHANGED <<maxHistorySize, nonLedgerVars>>

\* this.chat rejects: sendChat rethrows as 'Chat error: ...', nothing is appended
SendChatRejects(c) ==
    LET r == AppendTurns(<<conversationHistory, historySize>>, maxHistorySize,
                         TurnsAt("rejected"), Response(c), now)
    IN /\ calls[c].pc = "awaiting"
       /\ conversationHistory' = r[1]
       /\ historySize' = r[2]
       /\ eventClock' = eventClock + 1
       /\ calls' = [calls EXCEPT ![c].pc = "rejected", ![c].finishedAt = eventClock + 1]
       /\ UNCHANGED <<maxHistorySize, nonLedgerVars>>

\* turns appended so far are bounded by the number of direct appends allowed
Appendable == historySize < MaxAppends

NextLedger ==
    \/ \E role \in {"user"} : Appendable /\ CallerAppends(role)
    \/ ClearHistory
    \/ \E c \in Calls : Appendable /\ SendChatStarts(c)
    \/ \E c \in Calls : Appendable /\ SendChatResolves(c)
    \/ \E c \in Calls : SendChatRejects(c)

SpecLedger == InitLedger /\ [][NextLedger]_vars

----------------------------------------------------------------------------
(* getHistory: src/unnamed/part_001 and src/src/providers/base-provider.js      *)
(* An array is an object: `alias` says that the array the caller holds is the   *)
(* very array the provider keeps its turns in.                                  *)

\* the two revisions of BaseProvider in the repository
Revisions == {"part_001", "base-provider.js"}

\* getHistory(): [...this._conversationHistory] (part_001) and
\* this.conversationHistory (base-provider.js)
GetHistoryObject(revision, history) ==
    [alias |-> revision = "base-provider.js", items |-> history]

\* addToHistory(role, content) of the revision on <<history, size>>: base-provider.js
\* pushes without a limit
AddToHistoryOf(revision, history, size, maxSize, role, content, t) ==
    IF revision = "part_001"
    THEN AddToHistoryObject(history, size, maxSize, role, content, t)
    ELSE <<Append(history, Turn(role, content, t)), size>>

\* what the caller does to the array it was given
Mutations == {"push", "pop", "reverse"}

Reverse(seq) == [i \in 1..Len(seq) |-> seq[Len(seq) + 1 - i]]

Mutate(mutation, items) ==
    IF mutation = "push" THEN Append(items, Turn("caller", 0, now))
    ELSE IF mutation = "pop" THEN SubSeq(items, 1, Len(items) - 1)
    ELSE Reverse(items)

\* after new BaseProvider(config, name, {maxHistorySize: m}) of either revision
InitSnapshot ==
    /\ conversationHistory = << >>
    /\ historySize = 0
    /\ \E m \in 0..1 : maxHistorySize = OrElse(m, DefaultMaxHistorySize)
    /\ calls = << >>
    /\ eventClock = 0
    /\ \E r \in Revisions :
          returned = [taken |-> FALSE, revision |-> r, alias |-> FALSE, items |-> << >>,
                      op |-> "none", mutations |-> 0]
    /\ IdleCache /\ IdleRetry /\ IdleStream /\ IdleBatch
    /\ IdleDispatch /\ IdleExtract /\ IdleOptions /\ IdleHealth

\* addToHistory('user', n) for the n-th turn; an aliased array shows the new turn
SnapshotAppend ==
    LET r == AddToHistoryOf(returned.revision, conversationHistory, historySize,
                            maxHistorySize, "user", eventClock + 1, now)
    IN /\ eventClock < MaxSnapshotTurns
       /\ conversationHistory' = r[1]
       /\ historySize' = r[2]
       /\ eventClock' = eventClock + 1
       /\ returned' = [returned EXCEPT !.op = "append",
                                        !.items = IF returned.alias THEN r[1] ELSE @]
       /\ UNCHANGED <<maxHistorySize, calls, nonSnapshotVars>>

\* clearHistory(): a new empty array is assigned, the old one is left to its holders
SnapshotClear ==
    /\ conversationHistory # << >>
    /\ conversationHistory' = << >>
    /\ historySize' = 0
    /\ returned' = [returned EXCEPT !.op = "clear", !.alias = FALSE]
    /\ UNCHANGED <<maxHistorySize, calls, eventClock, nonSnapshotVars>>

\* const history = provider.getHistory()
GetHistory ==
    LET r == GetHistoryObject(returned.revision, conversationHistory)
    IN /\ returned' = [returned EXCEPT !.taken = TRUE, !.alias = r.alias,
                                        !.items = r.items, !.op = "get"]
       /\ UNCHANGED <<ledgerVars, nonSnapshotVars>>

\* history.push(turn), history.pop(), history.reverse(): the array changes in place,
\* and with it the provider's turns when it is the same array
CallerMutates(mutation) ==
    LET items == Mutate(mutation, returned.items)
    IN /\ returned.taken
       /\ returned.mutations < MaxMutations
       /\ mutation = "pop" => returned.items # << >>
       /\ returned' = [returned EXCEPT !.items = items, !.op = mutation,
                                        !.mutations = @ + 1]
       /\ conversationHistory' = IF returned.alias THEN items ELSE conversationHistory
       /\ UNCHANGED <<historySize, maxHistorySize, calls, eventClock, nonSnapshotVars>>

NextSnapshot ==
    \/ SnapshotAppend
    \/ SnapshotClear
    \/ GetHistory
    \/ \E mutation \in Mutations : CallerMutates(mutation)

SpecSnapshot == InitSnapshot /\ [][NextSnapshot]_vars

----------------------------------------------------------------------------
(* Retry policy: src/unnamed/part_001 (BaseProvider.makeRequestWithRetry) *)

RetryableStatuses == {408, 429, 500, 502, 503, 504}
RetryableCodes == {"ECONNRESET", "ECONNREFUSED", "ETIMEDOUT"}

\* the errors the transport operation throws: error.response.status (0: no response),
\* error.code ("": none) and whether error.message includes 'timeout'
TransportErrors ==
    { [status |-> 503, code |-> "", timeout |-> FALSE],
      [status |-> 404, code |-> "", timeout |-> FALSE],
      [status |-> 0, code |-> "ECONNRESET", timeout |-> FALSE],
      [status |-> 0, code |-> "ENOTFOUND", timeout |-> FALSE],
      [status |-> 0, code |-> "", timeout |-> TRUE] }

NoError == [status |-> 0, code |-> "", timeout |-> FALSE, thrownBy |-> 0]

\* the error object the n-th invocation of the operation throws
Thrown(error, n) ==
    [status |-> error.status, code |-> error.code, timeout |-> error.timeout, thrownBy |-> n]

\* what an invocation of the operation ends with: response.data or a thrown error
Succeeded(data) == [ok |-> TRUE, data |-> data, error |-> NoError]
Failed(error) == [ok |-> FALSE, data |-> 0, error |-> error]

\* mutant: every HTTP error status counts as retryable
IsRetryableError_AnyStatus(error) ==
    \/ error.status # 0
    \/ error.code # "" /\ error.code \in RetryableCodes
    \/ error.timeout

\* isRetryableError(error)
IsRetryableError(error) ==
    \/ error.status # 0 /\ error.status \in RetryableStatuses
    \/ error.code # "" /\ error.code \in RetryableCodes
    \/ error.timeout

\* mutant: two more attempts than configured
ShouldRetry_TwoMore(attempt, error) ==
    attempt < retryAttempts + 2 /\ IsRetryableError(error)

\* mutant: one more attempt than configured
ShouldRetry_UpTo(attempt, error) ==
    attempt <= retryAttempts /\ IsRetryableError(error)

\* attempt < this._retryAttempts && this.isRetryableError(error)
ShouldRetry(attempt, error) ==
    attempt < retryAttempts /\ IsRetryableError(error)

\* mutant: the delay doubles with every attempt
BackoffDelay_Exponential(attempt) == retryDelay * 2 ^ (attempt - 1)

\* the argument of this.delay: this._retryDelay * attempt
BackoffDelay(attempt) == retryDelay * attempt

\* new BaseProvider(config, type, {retryAttempts, retryDelay}); no call made yet
InitRetry ==
    /\ \E n \in 0..MaxAttemptsOpt : retryAttempts = OrElse(n, DefaultRetryAttempts)
    /\ \E d \in 0..MaxDelayOpt : retryDelay = OrElse(d, DefaultRetryDelay)
    /\ request = [pc |-> "idle", attempt |-> 0, invocations |-> 0, log |-> << >>,
                  waits |-> << >>, outcome |-> Succeeded(0)]
    /\ IdleCache /\ IdleLedger /\ IdleStream /\ IdleBatch
    /\ IdleSnapshot /\ IdleDispatch /\ IdleExtract /\ IdleOptions /\ IdleHealth

\* makeRequestWithRetry(data, options): attempt = 1, this.makeRequest is awaited
MakeRequestWithRetry ==
    /\ request.pc = "idle"
    /\ request' = [request EXCEPT !.pc = "calling", !.attempt = 1]
    /\ UNCHANGED <<retryAttempts, retryDelay, nonRetryVars>>

\* this.makeRequest resolves: its response.data is returned; the n-th invocation
\* returns the data n
RequestSucceeds ==
    LET n == request.invocations + 1
    IN /\ request.pc = "calling"
       /\ request' = [request EXCEPT !.pc = "resolved", !.invocations = n,
                                     !.log = Append(@, Succeeded(n)),
                                     !.outcome = Succeeded(n)]
       /\ UNCHANGED <<retryAttempts, retryDelay, nonRetryVars>>

\* this.makeRequest throws: the catch block either starts the delay or rethrows
RequestFails(error) ==
    LET n == request.invocations + 1
        thrown == Thrown(error, n)
    IN /\ request.pc = "calling"
       /\ IF ShouldRetry(request.attempt, thrown)
          THEN request' = [request EXCEPT !.pc = "delaying", !.invocations = n,
                                          !.log = Append(@, Failed(thrown)),
                                          !.waits = Append(@, BackoffDelay(request.attempt))]
          ELSE request' = [request EXCEPT !.pc = "rejected", !.invocations = n,
                                          !.log = Append(@, Failed(thrown)),
                                          !.outcome = Failed(thrown)]
       /\ UNCHANGED <<retryAttempts, retryDelay, nonRetryVars>>

\* the delay elapses: makeRequestWithRetry(data, options, attempt + 1)
DelayElapses ==
    /\ request.pc = "delaying"
    /\ request' = [request EXCEPT !.pc = "calling", !.attempt = @ + 1]
    /\ UNCHANGED <<retryAttempts, retryDelay, nonRetryVars>>

NextRetry ==
    \/ MakeRequestWithRetry
    \/ RequestSucceeds
    \/ \E error \in TransportErrors : RequestFails(error)
    \/ DelayElapses

SpecRetry == InitRetry /\ [][NextRetry]_vars

\* the retry policy when every awaited promise settles: this.makeRequest resolves or
\* throws, and the setTimeout of this.delay fires
SpecRetryLive ==
    /\ SpecRetry
    /\ WF_vars(RequestSucceeds \/ \E error \in TransportErrors : RequestFails(error))
    /\ WF_vars(DelayElapses)

----------------------------------------------------------------------------
(* Live streaming: OllamaProvider.streamChat (src/src/providers/mixins/cache-mixin.js) *)
(* and BaseProvider._createGenericStream (src/unnamed/part_001)                       *)

StreamImpls == {"ollama", "generic"}

\* a line of the transport: whether JSON.parse accepts it and, if so, the fields of the
\* parsed object that the handlers read ("" when the field is missing)
JsonLine(message, content, done) ==
    [blank |-> FALSE, json |-> TRUE, message |-> message, content |-> content,
     response |-> "", delta |-> "", done |-> done, finish |-> FALSE]

MalformedLine ==
    [blank |-> FALSE, json |-> FALSE, message |-> "", content |-> "",
     response |-> "", delta |-> "", done |-> FALSE, finish |-> FALSE]

\* what split('\n') leaves after a trailing newline
BlankLine == [MalformedLine EXCEPT !.blank = TRUE]

StreamLines ==
    { JsonLine("a", "", FALSE),     \* {"message":{"content":"a"}}
      JsonLine("b", "", FALSE),     \* {"message":{"content":"b"}}
      JsonLine("", "c", FALSE),     \* {"content":"c"}
      JsonLine("", "", TRUE),       \* {"done":true}
      MalformedLine,
      BlankLine }

\* the chunks the transport may deliver: 1..n lines each
ChunksUpTo(n) == UNION { [1..k -> StreamLines] : k \in 1..n }

\* the content a handler reads from a parsed line
LineContent(impl, parsed) ==
    IF impl = "ollama" THEN parsed.message
    ELSE IF parsed.message # "" THEN parsed.message
    ELSE IF parsed.content # "" THEN parsed.content
    ELSE IF parsed.response # "" THEN parsed.response
    ELSE parsed.delta

\* the completion check of a handler
LineCompletes(impl, parsed) ==
    IF impl = "ollama" THEN parsed.done ELSE parsed.done \/ parsed.finish

\* stream.emit(type, payload): the event, and whether a listener was registered for it
Emit(st, event) ==
    [st EXCEPT !.emitted = Append(@, [event EXCEPT !.heard = st.listeners[event.type] > 0])]

DataEvent(content, done, finalContent, tokens) ==
    [type |-> "data", content |-> content, done |-> done,
     final_content |-> finalContent, tokens |-> tokens, heard |-> FALSE]

EndEvent(content, tokens) ==
    [type |-> "end", content |-> content, done |-> TRUE,
     final_content |-> content, tokens |-> tokens, heard |-> FALSE]

\* mutant: the done line is counted as a token of the complete event
ProcessLine_CountsDoneLine(st, line) ==
    IF line.blank \/ (st.impl = "generic" /\ st.isComplete) THEN st
    ELSE IF ~line.json THEN st
    ELSE LET content == LineContent(st.impl, line)
             st1 == IF content # ""
                    THEN Emit([st EXCEPT !.accumulatedContent = @ \o content,
                                         !.tokenCount = @ + 1],
                              DataEvent(content, FALSE, "", st.tokenCount + 1))
                    ELSE st
         IN IF LineCompletes(st.impl, line)
            THEN LET st2 == IF st.impl = "generic"
                            THEN [st1 EXCEPT !.isComplete = TRUE] ELSE st1
                     st3 == Emit(st2, DataEvent("", TRUE, st2.accumulatedContent,
                                                st2.tokenCount))
                 IN Emit(st3, EndEvent(st3.accumulatedContent, st3.tokenCount + 1))
            ELSE st1

\* the body of the for loop of the 'data' handler, for one line
ProcessLine(st, line) ==
    IF line.blank \/ (st.impl = "generic" /\ st.isComplete) THEN st
    ELSE IF ~line.json THEN st
    ELSE LET content == LineContent(st.impl, line)
             st1 == IF content # ""
                    THEN Emit([st EXCEPT !.accumulatedContent = @ \o content,
                                         !.tokenCount = @ + 1],
                              DataEvent(content, FALSE, "", st.tokenCount + 1))
                    ELSE st
         IN IF LineCompletes(st.impl, line)
            THEN LET st2 == IF st.impl = "generic"
                            THEN [st1 EXCEPT !.isComplete = TRUE] ELSE st1
                     st3 == Emit(st2, DataEvent("", TRUE, st2.accumulatedContent,
                                                st2.tokenCount))
                 IN Emit(st3, EndEvent(st3.accumulatedContent, st3.tokenCount))
            ELSE st1

\* the 'data' handler: chunk.toString().split('\n'), then every line in order
RECURSIVE ProcessChunk(_, _)
ProcessChunk(st, lines) ==
    IF lines = << >> THEN st
    ELSE ProcessChunk(ProcessLine(st, Head(lines)), Tail(lines))

\* the condition under which the transport 'end' handler emits 'end'
SynthesizesEnd(st) ==
    IF st.impl = "ollama" THEN st.listeners["end"] = 0 ELSE ~st.isComplete

\* one part of a line that the transport cut in two: not blank, and JSON.parse
\* rejects it (the text of an object without its opening or its closing brace)
LinePiece == MalformedLine

\* the lines of StreamLines that JSON.parse accepts
WholeLines == { l \in StreamLines : l.json }

NoLine == [blank |-> TRUE, json |-> FALSE]

\* the closure of streamChat / _createGenericStream when the stream is returned
NewStream(impl) ==
    [impl |-> impl, transport |-> "open", accumulatedContent |-> "",
     tokenCount |-> 0, isComplete |-> FALSE, lines |-> 0,
     received |-> << >>, sent |-> << >>, pending |-> NoLine,
     listeners |-> [data |-> 0, end |-> 0], emitted |-> << >>]

\* the stream just returned to the consumer: handlers attached, nothing received
InitStream ==
    /\ \E impl \in StreamImpls : stream = NewStream(impl)
    /\ IdleCache /\ IdleLedger /\ IdleRetry /\ IdleBatch
    /\ IdleSnapshot /\ IdleDispatch /\ IdleExtract /\ IdleOptions /\ IdleHealth

\* the consumer registers a listener: stream.on(type, listener)
ConsumerListens(type) ==
    /\ stream.listeners[type] = 0
    /\ stream' = [stream EXCEPT !.listeners[type] = 1]
    /\ UNCHANGED nonStreamVars

\* the transport delivers a chunk of whole lines: the 'data' handler runs
TransportData(chunk) ==
    /\ stream.transport = "open"
    /\ stream.pending = NoLine
    /\ stream' = [ProcessChunk(stream, chunk) EXCEPT !.lines = @ + Len(chunk),
                                                      !.received = @ \o chunk,
                                                      !.sent = @ \o chunk]
    /\ UNCHANGED nonStreamVars

\* the transport delivers a chunk that ends in the middle of a line: the 'data'
\* handler runs on the first part of the line
TransportLineHead(line) ==
    /\ stream.transport = "open"
    /\ stream.pending = NoLine
    /\ stream.lines < MaxStreamLines
    /\ stream' = [ProcessChunk(stream, <<LinePiece>>) EXCEPT
                      !.lines = @ + 1,
                      !.received = Append(@, LinePiece),
                      !.pending = line]
    /\ UNCHANGED nonStreamVars

\* the next chunk brings the rest of that line: the 'data' handler runs on it
TransportLineTail ==
    /\ stream.transport = "open"
    /\ stream.pending # NoLine
    /\ stream' = [ProcessChunk(stream, <<LinePiece>>) EXCEPT
                      !.received = Append(@, LinePiece),
                      !.sent = Append(@, stream.pending),
                      !.pending = NoLine]
    /\ UNCHANGED nonStreamVars

\* the transport closes: the 'end' handler runs
TransportEnd ==
    /\ stream.transport = "open"
    /\ stream.pending = NoLine
    /\ stream' = [(IF SynthesizesEnd(stream)
                   THEN Emit(stream, EndEvent(stream.accumulatedContent, stream.tokenCount))
                   ELSE stream) EXCEPT !.transport = "ended"]
    /\ UNCHANGED nonStreamVars

NextStream ==
    \/ \E type \in {"data", "end"} : ConsumerListens(type)
    \/ \E chunk \in ChunksUpTo(MaxStreamLines - stream.lines) : TransportData(chunk)
    \/ \E line \in WholeLines : TransportLineHead(line)
    \/ TransportLineTail
    \/ TransportEnd

SpecStream == InitStream /\ [][NextStream]_vars

----------------------------------------------------------------------------
(* Batch reconstruction: src/src/providers/ollama-provider.js (OllamaProvider) *)
(* Strings are sequences of UTF-16 code units; '' is the empty sequence.      *)

ResponsesExpiry == 120000   \* expiry: 2 * 60 * 1000 of the 'responses' cache
ResponsesMaxSize == 50      \* maxSize: 50 of the 'responses' cache
HashedLength == 100         \* responseText.slice(0, 100)

\* the text {"model":"llama3.2","message":{"content":" that opens a content line
ContentLineOpen ==
    <<123, 34, 109, 111, 100, 101, 108, 34, 58, 34, 108, 108, 97, 109, 97, 51, 46,
      50, 34, 44, 34, 109, 101, 115, 115, 97, 103, 101, 34, 58, 123, 34, 99, 111,
      110, 116, 101, 110, 116, 34, 58, 34>>

\* the text "}} that closes a content line
ContentLineClose ==
    <<34, 125, 125>>

\* the text {"model":"llama3.2","done":true}
DoneLineText ==
    <<123, 34, 109, 111, 100, 101, 108, 34, 58, 34, 108, 108, 97, 109, 97, 51, 46,
      50, 34, 44, 34, 100, 111, 110, 101, 34, 58, 116, 114, 117, 101, 125>>

\* the text {"invalid":json}, which JSON.parse rejects
InvalidLineText ==
    <<123, 34, 105, 110, 118, 97, 108, 105, 100, 34, 58, 106, 115, 111, 110, 125>>

\* the content fragments of the bodies: "Hi", "Aa", "BB"
Fragments == {<<72, 105>>, <<65, 97>>, <<66, 66>>}

Newline == 10
Whitespace == {9, 10, 11, 12, 13, 32}

\* the objects JSON.parse returns for the lines of a body: the fields the code reads
\* (a missing string is '', a missing message has present = FALSE)
ContentObject(fragment) ==
    [model |-> "llama3.2", message |-> [present |-> TRUE, content |-> fragment],
     content |-> << >>, response |-> << >>, done |-> FALSE]

DoneObject ==
    [model |-> "llama3.2", message |-> [present |-> FALSE, content |-> << >>],
     content |-> << >>, response |-> << >>, done |-> TRUE]

\* { content: '' }
FallbackResponse ==
    [model |-> "", message |-> [present |-> FALSE, content |-> << >>],
     content |-> << >>, response |-> << >>, done |-> FALSE]

JsonObjects == {ContentObject(f) : f \in Fragments} \cup {DoneObject}

\* JSON.stringify of these objects, as the transport sends them
Stringify(object) ==
    IF object.done THEN DoneLineText
    ELSE ContentLineOpen \o object.message.content \o ContentLineClose

\* JSON.parse(line): the object whose text the line is, or a SyntaxError
JsonParse(line) ==
    IF \E o \in JsonObjects : Stringify(o) = line
    THEN [ok |-> TRUE, value |-> CHOOSE o \in JsonObjects : Stringify(o) = line]
    ELSE [ok |-> FALSE, value |-> FallbackResponse]

\* the lines a body is made of
BodyLines == {Stringify(o) : o \in JsonObjects} \cup {InvalidLineText}

\* lines.join('\n')
RECURSIVE Join(_)
Join(lines) ==
    IF Len(lines) = 1 THEN lines[1]
    ELSE lines[1] \o <<Newline>> \o Join(Tail(lines))

\* the raw bodies the transport returns: 1..MaxBodyLines lines
ResponseTexts ==
    { Join(lines) : lines \in UNION { [1..k -> BodyLines] : k \in 1..MaxBodyLines } }

\* String.prototype.slice(0, n)
Slice(str, n) == SubSeq(str, 1, IF n < Len(str) THEN n ELSE Len(str))

\* String.prototype.includes(char)
Includes(str, char) == \E i \in 1..Len(str) : str[i] = char

\* String.prototype.trim()
RECURSIVE Trim(_)
Trim(str) ==
    IF str = << >> THEN str
    ELSE IF Head(str) \in Whitespace THEN Trim(Tail(str))
    ELSE IF str[Len(str)] \in Whitespace THEN Trim(SubSeq(str, 1, Len(str) - 1))
    ELSE str

\* String.prototype.split(char)
RECURSIVE Split(_, _)
Split(str, char) ==
    IF Includes(str, char)
    THEN LET i == CHOOSE i \in 1..Len(str) :
                     str[i] = char /\ \A j \in 1..(i - 1) : str[j] # char
         IN <<SubSeq(str, 1, i - 1)>> \o Split(SubSeq(str, i + 1, Len(str)), char)
    ELSE <<str>>

\* 32-bit words are kept as their 16-bit halves <<high, low>>, so that no
\* intermediate result leaves the integers of the checker
Word(n) == <<0, n>>

\* the low and the high 16 bits of the product of two 16-bit numbers
MulLow(a, b) == ((a * (b % 256)) + ((a * (b \div 256)) % 256) * 256) % 65536

MulHigh(a, b) ==
    LET p0 == a * (b % 256)
        p1 == a * (b \div 256)
        low == (p0 % 65536) + (p1 % 256) * 256
    IN (p0 \div 65536) + (p1 \div 256) + (low \div 65536)

\* product and sum of two words, modulo 2^32
MulWord(x, y) ==
    <<(MulHigh(x[2], y[2]) + MulLow(x[1], y[2]) + MulLow(x[2], y[1])) % 65536,
      MulLow(x[2], y[2])>>

AddWord(x, y) ==
    LET low == x[2] + y[2]
    IN <<(x[1] + y[1] + (low \div 65536)) % 65536, low % 65536>>

\* one round of the loop of _generateCacheKey,
\*   hash = ((hash << 5) - hash) + char; hash = hash & hash,
\* maps the 32-bit hash to 31 * hash + char: the map <<multiplier, increment>>
HashRound(char) == <<Word(31), Word(char)>>

\* the rounds f followed by the rounds g
ThenRounds(f, g) == <<MulWord(f[1], g[1]), AddWord(MulWord(f[2], g[1]), g[2])>>

\* the rounds for str[first..last], in order
RECURSIVE HashRounds(_, _, _)
HashRounds(str, first, last) ==
    IF first = last THEN HashRound(str[first])
    ELSE LET mid == (first + last) \div 2
         IN ThenRounds(HashRounds(str, first, mid), HashRounds(str, mid + 1, last))

\* the signed 32-bit integer with these halves
ToInt32(hash) ==
    IF hash[1] >= 32768 THEN (hash[1] - 65536) * 65536 + hash[2]
    ELSE hash[1] * 65536 + hash[2]

\* the decimal digits of -n, for n <= 0
RECURSIVE DigitsOfNegative(_)
DigitsOfNegative(n) ==
    IF n = 0 THEN << >>
    ELSE LET digit == (10 - (n % 10)) % 10
         IN DigitsOfNegative((n + digit) \div 10) \o <<48 + digit>>

\* Number.prototype.toString()
NumberToString(n) ==
    IF n = 0 THEN <<48>>
    ELSE IF n < 0 THEN <<45>> \o DigitsOfNegative(n)
    ELSE DigitsOfNegative(0 - n)

\* _generateCacheKey(responseText)
GenerateCacheKey(text) ==
    LET str == Slice(text, HashedLength)
        \* let hash = 0, then one round for every character
        hash == IF str = << >> THEN Word(0) ELSE HashRounds(str, 1, Len(str))[2]
    IN NumberToString(ToInt32(hash))

\* JavaScript truthiness of a string
Truthy(str) == str # << >>

\* the body of the for loop of _parseStreamingResponse for one line, on
\* [completeContent, found (finalResponse !== null), finalResponse]
ParseLine(acc, line) ==
    LET parsed == JsonParse(line)
        object == parsed.value
        fragment == IF object.message.present /\ Truthy(object.message.content)
                    THEN object.message.content
                    ELSE IF Truthy(object.content) THEN object.content
                    ELSE object.response
        acc1 == IF Truthy(fragment)
                THEN [completeContent |-> acc.completeContent \o fragment,
                      found |-> TRUE, finalResponse |-> object]
                ELSE acc
    IN IF ~parsed.ok THEN acc
       ELSE IF object.done THEN [acc1 EXCEPT !.found = TRUE, !.finalResponse = object]
       ELSE acc1

RECURSIVE ParseLines(_, _)
ParseLines(acc, lines) ==
    IF lines = << >> THEN acc
    ELSE ParseLines(ParseLine(acc, Head(lines)), Tail(lines))

\* _parseStreamingResponse(responseText) after a cache miss: the response it builds
Reconstruct(text) ==
    LET acc == ParseLines([completeContent |-> << >>, found |-> FALSE,
                           finalResponse |-> FallbackResponse],
                          Split(Trim(text), Newline))
    IN IF Truthy(acc.completeContent) /\ acc.found
       THEN [acc.finalResponse EXCEPT
                !.message = [present |-> TRUE, content |-> acc.completeContent]]
       ELSE FallbackResponse

\* both functions of the raw body, tabulated over the bodies of the model
CacheKeyOf == [text \in ResponseTexts |-> GenerateCacheKey(text)]
ReconstructionOf == [text \in ResponseTexts |-> Reconstruct(text)]

\* extractContent(response), responseFormat 'ollama'
ExtractContent(response) ==
    IF response.message.present /\ Truthy(response.message.content)
    THEN response.message.content
    ELSE IF Truthy(response.content) THEN response.content
    ELSE response.response

\* JSON.parse('null'): the one JSON value whose properties cannot be read
JsonNull == [null |-> TRUE]

\* the strings "A", "B", "C" of payload fields
PayloadTexts == {<<65>>, <<66>>, <<67>>}

\* the message field of a payload: missing, or an object with or without content
MessageFields ==
    {[present |-> FALSE, content |-> << >>]}
        \cup {[present |-> TRUE, content |-> c] : c \in PayloadTexts \cup {<< >>}}

\* the payloads extractContent is called with: null and the objects made of the
\* fields it reads
Payloads ==
    {JsonNull} \cup
    { [model |-> "llama3.2", message |-> m, content |-> c, response |-> r, done |-> TRUE] :
        m \in MessageFields, c \in PayloadTexts \cup {<< >>}, r \in PayloadTexts \cup {<< >>} }

\* a call of extractContent(response): it returns the content, or response.message
\* throws a TypeError because response is null
ExtractContentCall(response) ==
    IF response = JsonNull
    THEN [called |-> TRUE, threw |-> TRUE, content |-> << >>]
    ELSE [called |-> TRUE, threw |-> FALSE, content |-> ExtractContent(response)]

\* a payload has arrived, extractContent is not called yet
InitExtract ==
    /\ payload \in Payloads
    /\ extracted = [called |-> FALSE]
    /\ IdleCache /\ IdleLedger /\ IdleRetry /\ IdleStream /\ IdleBatch
    /\ IdleSnapshot /\ IdleDispatch /\ IdleOptions /\ IdleHealth

\* this.extractContent(response)
Extract ==
    /\ ~extracted.called
    /\ extracted' = ExtractContentCall(payload)
    /\ UNCHANGED <<payload, nonExtractVars>>

\* the next payload arrives
NextPayload ==
    /\ extracted.called
    /\ payload' \in Payloads
    /\ extracted' = [called |-> FALSE]
    /\ UNCHANGED nonExtractVars

NextExtract ==
    \/ Extract
    \/ NextPayload

SpecExtract == InitExtract /\ [][NextExtract]_vars

\* makeRequest takes the body for a streaming response
IsStreamingResponse(text) ==
    Includes(text, Newline) /\ Len(Split(Trim(text), Newline)) > 1

\* new OllamaProvider(config): _initializeMixins creates the 'responses' cache
InitBatch ==
    /\ now = 0
    /\ cleanupInterval = DefaultCleanupInterval
    /\ caches = [n \in {"responses"} |->
                    CreateCacheObject([expiry |-> ResponsesExpiry,
                                       maxSize |-> ResponsesMaxSize], 0)]
    /\ lastOp = NoOp
    /\ responseText = << >>
    /\ finalResponse = FallbackResponse
    /\ requestCount = 0
    /\ IdleLedger /\ IdleRetry /\ IdleStream
    /\ IdleSnapshot /\ IdleDispatch /\ IdleExtract /\ IdleOptions /\ IdleHealth

\* _parseStreamingResponse(responseText): <<cache after, response returned>>
ParseStreamingResponse(cache, text, t, interval) ==
    LET cacheKey == CacheKeyOf[text]
        has == HasCacheObject(cache, cacheKey, t)
        got == GetCacheObject(has[1], cacheKey, t)
        response == ReconstructionOf[text]
    IN IF has[2] = 1 THEN got
       ELSE <<SetCacheObject(has[1], cacheKey, response,
                             [expiry |-> 0, maxSize |-> 0], t, interval), response>>

\* makeRequest(data, options) once axios.post has resolved with the body text
MakeRequest(text) ==
    LET parsed == ParseStreamingResponse(caches["responses"], text, now, cleanupInterval)
    IN /\ requestCount < MaxRequests
       /\ requestCount' = requestCount + 1
       /\ responseText' = text
       /\ IF IsStreamingResponse(text)
          THEN /\ caches' = [caches EXCEPT !["responses"] = parsed[1]]
               /\ finalResponse' = parsed[2]
          ELSE /\ finalResponse' = JsonParse(text).value
               /\ UNCHANGED caches
       /\ UNCHANGED <<now, cleanupInterval, lastOp, nonBatchVars>>

\* the clock advances between requests
BatchTick == Tick /\ UNCHANGED <<batchVars, nonBatchVars>>

NextBatch ==
    \/ \E text \in ResponseTexts : MakeRequest(text)
    \/ BatchTick

SpecBatch == InitBatch /\ [][NextBatch]_vars

----------------------------------------------------------------------------
(* Dispatch core: src/unnamed/part_001 (BaseProvider.chat / vision / streamChat / *)
(* streamVision, sendChat / sendVision, handleError) and the streamChat override   *)
(* of OllamaProvider (src/src/providers/mixins/cache-mixin.js).                     *)
(* Messages are sequences of words.                                                *)

\* new BaseProvider(config), new OllamaProvider(config), new AnthropicProvider(config)
Providers == {"base", "ollama", "anthropic"}

\* this.providerType
ProviderType(name) == IF name = "anthropic" THEN "sdk" ELSE "http"

Operations ==
    {"chat", "vision", "streamChat", "streamVision", "sendChat", "sendVision",
     "getStreamChat", "getStreamVision"}

IsStreaming(op) == op \in {"streamChat", "streamVision"}

\* the forms that record the conversation: sendChat / sendVision and
\* getStreamChat / getStreamVision
IsTracked(op) == op \in {"sendChat", "sendVision", "getStreamChat", "getStreamVision"}

\* the unified operation a tracked form awaits: this.chat / this.vision /
\* this.streamChat / this.streamVision
InnerOperation(op) ==
    IF op = "sendChat" THEN "chat"
    ELSE IF op = "sendVision" THEN "vision"
    ELSE IF op = "getStreamChat" THEN "streamChat"
    ELSE IF op = "getStreamVision" THEN "streamVision"
    ELSE op

\* mutant: the tracked streaming forms record a reply once the stream is returned
TurnsOf_StreamRecordsReply(op, phase) ==
    IF ~IsTracked(op) THEN << >> ELSE TurnsAt(phase)

\* the turns a tracked form appends: sendChat / sendVision the user turn before the
\* await and the assistant turn after it; getStreamChat / getStreamVision only the
\* user turn, then `return await this.streamChat(messages, options)`
TurnsOf(op, phase) ==
    IF ~IsTracked(op) THEN << >>
    ELSE IF IsStreaming(InnerOperation(op))
    THEN (IF phase = "start" THEN <<"user">> ELSE << >>)
    ELSE TurnsAt(phase)

\* the prefix the catch block of a tracked form puts before error.message
TrackedPrefix(op) ==
    IF op = "sendChat" THEN <<"Chat", "error:">>
    ELSE IF op = "sendVision" THEN <<"Vision", "error:">>
    ELSE IF op = "getStreamChat" THEN <<"Stream", "chat", "error:">>
    ELSE <<"Stream", "vision", "error:">>

\* the operation string handed to handleError
OperationName(op) ==
    IF op = "chat" THEN <<"chat">>
    ELSE IF op = "vision" THEN <<"vision">>
    ELSE IF op = "streamChat" THEN <<"stream", "chat">>
    ELSE <<"stream", "vision">>

\* mutant: every provider goes through makeRequestWithRetry
Route_AlwaysRetry(name, op) == "retry"

\* how the operation reaches the backend: this.createMessage (SDK style),
\* makeRequestWithRetry (HTTP style), or axios.post called by the override itself
Route(name, op) ==
    IF name = "ollama" /\ op = "streamChat" THEN "post"
    ELSE IF ProviderType(name) = "sdk" THEN "sdk"
    ELSE "retry"

\* mutant: the formatter lets malformed input through to the backend call
FormatThrows_Never(valid) == FALSE

\* formatMessages / formatVisionMessages, the first statement of the try block: it
\* throws for input it cannot format
FormatThrows(valid) == ~valid

\* what formatMessages / formatVisionMessages throw for input they cannot format
FormatFailure == [status |-> 0, code |-> "", timeout |-> FALSE, thrownBy |-> 0]

\* error.message of what a collaborator threw
ErrorMessage(cause) ==
    IF cause.thrownBy = 0 THEN <<"Invalid", "image", "format">>
    ELSE IF cause.timeout THEN <<"timeout", "of", "30000ms", "exceeded">>
    ELSE IF cause.status # 0
    THEN <<"Request", "failed", "with", "status", "code", ToString(cause.status)>>
    ELSE <<"connect", cause.code>>

\* the Error object a collaborator threw: no provider, no operation
ErrorObject(cause) ==
    [message |-> ErrorMessage(cause), provider |-> "", operation |-> << >>,
     cause |-> cause]

NoErrorObject == [message |-> << >>, provider |-> "", operation |-> << >>, cause |-> NoError]

Undefined == [type |-> "undefined"]

\* the settled promise of an operation
NoOutcome == [kind |-> "none", value |-> Undefined, error |-> NoErrorObject]
Resolved(value) == [kind |-> "resolved", value |-> value, error |-> NoErrorObject]
Rejected(error) == [kind |-> "rejected", value |-> Undefined, error |-> error]

\* mutant: handleError reports the error and returns
HandleError_Swallowed(error, operation, name) == Resolved(Undefined)

\* return this.handleError(error, operation): throws
\* new Error(`${this.name} ${operation} error: ${errorMessage}`) with provider,
\* operation and originalError set
HandleError(error, operation, name) ==
    Rejected([message |-> <<name>> \o OperationName(operation) \o <<"error:">>
                              \o error.message,
              provider |-> name, operation |-> OperationName(operation),
              cause |-> error.cause])

\* formatResponse(content, model, usage, finishReason)
FormatResponse(name, content, model, finishReason, t) ==
    [type |-> "response", provider |-> name, model |-> model, content |-> content,
     finishReason |-> finishReason, timestamp |-> t]

\* the response of the backend: an Ollama chat object (HTTP style), an Anthropic
\* message (SDK style)
HttpResponse == ContentObject(<<72, 105>>)
SdkResponse ==
    [content |-> <<[type |-> "text", text |-> <<72, 105>>]>>, model |-> "claude",
     stop_reason |-> "end_turn"]

\* extractContentFromSDK(response), extractFinishReason(response) of AnthropicProvider
ExtractContentFromSDK(response) == response.content[1].text
ExtractFinishReason(response) == response.stop_reason

\* the value a successful operation returns
ValueOf(name, op, t) ==
    IF IsStreaming(op)
    THEN [type |-> "stream", from |-> Route(name, op)]
    ELSE IF Route(name, op) = "sdk"
    THEN FormatResponse(name, ExtractContentFromSDK(SdkResponse), SdkResponse.model,
                        IF op = "chat" THEN ExtractFinishReason(SdkResponse) ELSE "stop", t)
    ELSE FormatResponse(name, ExtractContent(HttpResponse), HttpResponse.model, "stop", t)

\* the catch block of chat / vision / streamChat / streamVision; the override of
\* OllamaProvider emits 'error' on a stream nobody listens to yet, which throws the
\* error it was given
CatchBlock(name, op, cause) ==
    IF name = "ollama" /\ op = "streamChat"
    THEN Rejected(ErrorObject(cause))
    ELSE HandleError(ErrorObject(cause), op, name)

\* the catch block of sendChat / sendVision / getStreamChat / getStreamVision:
\* throw new Error(`Chat error: ${error.message}`)
TrackedOutcome(op, inner) ==
    IF ~IsTracked(op) \/ inner.kind = "resolved" THEN inner
    ELSE Rejected([message |-> TrackedPrefix(op) \o inner.error.message,
                   provider |-> "", operation |-> << >>, cause |-> inner.error.cause])

\* new Provider(config, {retryAttempts, retryDelay}); no operation called yet
InitDispatch ==
    /\ \E n \in 0..MaxAttemptsOpt : retryAttempts = OrElse(n, DefaultRetryAttempts)
    /\ \E d \in 0..MaxDelayOpt : retryDelay = OrElse(d, DefaultRetryDelay)
    /\ request = [pc |-> "idle", attempt |-> 0, invocations |-> 0, log |-> << >>,
                  waits |-> << >>, outcome |-> Succeeded(0)]
    /\ dispatch = [pc |-> "idle"]
    /\ IdleCache /\ IdleLedger /\ IdleStream /\ IdleBatch
    /\ IdleSnapshot /\ IdleExtract /\ IdleOptions /\ IdleHealth

\* the operation settles with the outcome of chat / vision / streamChat / streamVision;
\* the tracked forms append the assistant turn after a success
Completes(d, inner, failed) ==
    LET roles == TurnsOf(d.op, IF inner.kind = "resolved" THEN "end" ELSE "rejected")
        hs == AppendTurns(<<conversationHistory, historySize>>, maxHistorySize,
                          roles, Response(1), now)
        live == /\ inner.kind = "resolved"
                /\ InnerOperation(d.op) = "streamChat"
                /\ d.provider = "ollama"
    IN /\ dispatch' = [d EXCEPT !.pc = IF live THEN "streaming" ELSE "settled",
                                !.failed = failed,
                                !.outcome = TrackedOutcome(d.op, inner)]
       /\ conversationHistory' = hs[1]
       /\ historySize' = hs[2]

\* provider.<op>(messages, options) up to its first await: the tracked forms append
\* the user turn, the messages are formatted, the backend is called
DispatchStart(name, op, valid) ==
    LET inner == InnerOperation(op)
        hs == AppendTurns(<<conversationHistory, historySize>>, maxHistorySize,
                          TurnsOf(op, "start"),
                          Message(1), now)
        started == [pc |-> "started", provider |-> name, op |-> op, valid |-> valid,
                    created |-> 0, posts |-> 0, listening |-> FALSE, events |-> << >>,
                    failed |-> FALSE, outcome |-> NoOutcome]
    IN /\ dispatch.pc = "idle"
       /\ conversationHistory' = hs[1]
       /\ historySize' = hs[2]
       /\ IF FormatThrows(valid)
          THEN /\ dispatch' = [started EXCEPT
                      !.pc = "settled", !.failed = TRUE,
                      !.outcome = TrackedOutcome(op, CatchBlock(name, inner, FormatFailure))]
               /\ UNCHANGED request
          ELSE IF Route(name, inner) = "sdk"
          THEN /\ dispatch' = [started EXCEPT !.pc = "creating", !.created = 1]
               /\ UNCHANGED request
          ELSE IF Route(name, inner) = "post"
          THEN /\ dispatch' = [started EXCEPT !.pc = "posting", !.posts = 1]
               /\ UNCHANGED request
          ELSE /\ dispatch' = [started EXCEPT !.pc = "retrying"]
               /\ request' = [request EXCEPT !.pc = "calling", !.attempt = 1]
       /\ UNCHANGED <<retryAttempts, retryDelay, maxHistorySize, calls, eventClock,
                      nonDispatchVars>>

\* makeRequestWithRetry has returned or thrown: httpChat / httpVision format the
\* response, httpStreamChat / httpStreamVision return response.data, the catch block
\* hands the error to handleError
DispatchSettles ==
    LET inner == InnerOperation(dispatch.op)
    IN /\ dispatch.pc = "retrying"
       /\ request.pc \in {"resolved", "rejected"}
       /\ Completes(dispatch,
                    IF request.outcome.ok
                    THEN Resolved(ValueOf(dispatch.provider, inner, now))
                    ELSE CatchBlock(dispatch.provider, inner, request.outcome.error),
                    ~request.outcome.ok)
       /\ UNCHANGED <<retryVars, maxHistorySize, calls, eventClock, nonDispatchVars>>

\* this.createMessage(params) resolves
CreateMessageResolves ==
    /\ dispatch.pc = "creating"
    /\ Completes(dispatch,
                 Resolved(ValueOf(dispatch.provider, InnerOperation(dispatch.op), now)),
                 FALSE)
    /\ UNCHANGED <<retryVars, maxHistorySize, calls, eventClock, nonDispatchVars>>

\* this.createMessage(params) throws
CreateMessageRejects(error) ==
    /\ dispatch.pc = "creating"
    /\ Completes(dispatch,
                 CatchBlock(dispatch.provider, InnerOperation(dispatch.op),
                            Thrown(error, dispatch.created)),
                 TRUE)
    /\ UNCHANGED <<retryVars, maxHistorySize, calls, eventClock, nonDispatchVars>>

\* OllamaProvider.streamChat: axios.post resolves, the handlers are attached and the
\* stream is returned
PostResolves ==
    /\ dispatch.pc = "posting"
    /\ Completes(dispatch,
                 Resolved(ValueOf(dispatch.provider, InnerOperation(dispatch.op), now)),
                 FALSE)
    /\ UNCHANGED <<retryVars, maxHistorySize, calls, eventClock, nonDispatchVars>>

\* OllamaProvider.streamChat: axios.post throws
PostRejects(error) ==
    /\ dispatch.pc = "posting"
    /\ Completes(dispatch,
                 CatchBlock(dispatch.provider, InnerOperation(dispatch.op),
                            Thrown(error, dispatch.posts)),
                 TRUE)
    /\ UNCHANGED <<retryVars, maxHistorySize, calls, eventClock, nonDispatchVars>>

\* the caller registers an 'error' listener on the stream it was given
ListensForErrors ==
    /\ dispatch.pc = "streaming"
    /\ ~dispatch.listening
    /\ dispatch' = [dispatch EXCEPT !.listening = TRUE]
    /\ UNCHANGED <<ledgerVars, retryVars, nonDispatchVars>>

\* response.data emits 'error': stream.emit('error', error)
StreamTransportFails(error) ==
    /\ dispatch.pc = "streaming"
    /\ dispatch' = [dispatch EXCEPT
           !.pc = "settled", !.failed = TRUE,
           !.events = Append(@, [type |-> "error",
                                 error |-> ErrorObject(Thrown(error, dispatch.posts)),
                                 heard |-> dispatch.listening])]
    /\ UNCHANGED <<ledgerVars, retryVars, nonDispatchVars>>

NextDispatch ==
    \/ \E name \in Providers, op \in Operations, valid \in BOOLEAN :
          DispatchStart(name, op, valid)
    \/ dispatch.pc = "retrying" /\ RequestSucceeds
    \/ \E error \in TransportErrors : dispatch.pc = "retrying" /\ RequestFails(error)
    \/ dispatch.pc = "retrying" /\ DelayElapses
    \/ DispatchSettles
    \/ CreateMessageResolves
    \/ \E error \in TransportErrors : CreateMessageRejects(error)
    \/ PostResolves
    \/ \E error \in TransportErrors : PostRejects(error)
    \/ ListensForErrors
    \/ \E error \in TransportErrors : StreamTransportFails(error)

SpecDispatch == InitDispatch /\ [][NextDispatch]_vars

----------------------------------------------------------------------------
(* Option handling: src/unnamed/part_001 (BaseProvider.getDefaultOptions,          *)
(* mergeOptions, validateOptions). A JavaScript value is [t |-> type, n |-> number]; *)
(* temperatures are counted in tenths, token counts in tokens.                     *)

OptionKeys == {"temperature", "maxTokens", "stream", "model"}

Absent == [t |-> "absent", n |-> 0]          \* the object has no such key
UndefinedValue == [t |-> "undefined", n |-> 0]
NullValue == [t |-> "null", n |-> 0]
NaN == [t |-> "NaN", n |-> 0]
Num(n) == [t |-> "number", n |-> n]
FalseValue == [t |-> "boolean", n |-> 0]
ModelName == [t |-> "string", n |-> 1]       \* a non-empty string

\* a number other than NaN
IsNumber(v) == v.t = "number"

\* ToNumber(value), as Math.min and Math.max apply it to their arguments
ToNumber(v) ==
    IF v.t = "number" THEN v
    ELSE IF v.t = "null" THEN Num(0)
    ELSE IF v.t = "boolean" THEN Num(v.n)
    ELSE NaN

\* Math.min(a, b), Math.max(a, b): NaN when either argument is
MathMin(a, b) ==
    LET x == ToNumber(a)
        y == ToNumber(b)
    IN IF x = NaN \/ y = NaN THEN NaN ELSE IF x.n <= y.n THEN x ELSE y

MathMax(a, b) ==
    LET x == ToNumber(a)
        y == ToNumber(b)
    IN IF x = NaN \/ y = NaN THEN NaN ELSE IF x.n >= y.n THEN x ELSE y

\* a || b
Either(a, b) ==
    IF a.t \in {"absent", "undefined", "null", "NaN"} \/ (a.t \in {"number", "boolean"} /\ a.n = 0)
    THEN b ELSE a

\* value !== undefined, for the value of a key that may be missing
IsDefined(v) == v.t \notin {"absent", "undefined"}

DefaultTemperature == 7     \* 0.7
MaxTemperature == 20        \* Math.min(2, ...)
MinTemperature == 0         \* Math.max(0, ...)
MinMaxTokens == 1           \* Math.max(1, ...)

\* getDefaultOptions()
GetDefaultOptions(config) ==
    [temperature |-> Either(config.temperature, Num(DefaultTemperature)),
     maxTokens |-> Either(config.maxTokens, NullValue),
     stream |-> FalseValue,
     model |-> Absent]

\* mutant: the defaults are spread last and win every conflict
MergeOptions_DefaultsWin(defaultOpts, userOpts) ==
    [k \in OptionKeys |-> IF defaultOpts[k] # Absent THEN defaultOpts[k] ELSE userOpts[k]]

\* mergeOptions(defaultOpts, userOpts): { ...defaultOpts, ...userOpts }
MergeOptions(defaultOpts, userOpts) ==
    [k \in OptionKeys |-> IF userOpts[k] # Absent THEN userOpts[k] ELSE defaultOpts[k]]

\* validateOptions(options)
ValidateOptions(opts) ==
    [opts EXCEPT
        !.temperature = IF IsDefined(@)
                        THEN MathMax(Num(MinTemperature), MathMin(Num(MaxTemperature), @))
                        ELSE @,
        !.maxTokens = IF IsDefined(@) THEN MathMax(Num(MinMaxTokens), @) ELSE @]

MaxTemperatureOpt == 25     \* the largest temperature a caller passes, in tenths
MaxTokensOpt == 3           \* the largest token count a caller passes

\* the values a caller or a configuration gives for temperature and maxTokens
TemperatureValues ==
    {Absent, UndefinedValue, NaN} \cup {Num(n) : n \in {-5, 0, 15, 20, MaxTemperatureOpt}}

MaxTokensValues ==
    {Absent, UndefinedValue, NullValue, NaN} \cup {Num(n) : n \in -1..MaxTokensOpt}

UserOptions ==
    [temperature : TemperatureValues, maxTokens : MaxTokensValues,
     stream : {Absent}, model : {Absent, ModelName}]

Configs ==
    [temperature : {Absent, Num(0), Num(3)}, maxTokens : {Absent, Num(2)}]

\* new BaseProvider(config): no call made yet
InitOptions ==
    /\ \E config \in Configs : callOptions = [pc |-> "idle", config |-> config]
    /\ IdleCache /\ IdleLedger /\ IdleRetry /\ IdleStream /\ IdleBatch
    /\ IdleSnapshot /\ IdleDispatch /\ IdleExtract /\ IdleHealth

\* the head of chat / vision / streamChat / streamVision: the defaults are merged with
\* the caller's options and the result is validated
PrepareOptions(userOpts) ==
    LET defaultOpts == GetDefaultOptions(callOptions.config)
        mergedOptions == MergeOptions(defaultOpts, userOpts)
    IN /\ callOptions.pc = "idle"
       /\ callOptions' = [pc |-> "prepared", config |-> callOptions.config,
                          user |-> userOpts, defaults |-> defaultOpts,
                          merged |-> mergedOptions,
                          valid |-> ValidateOptions(mergedOptions)]
       /\ UNCHANGED nonOptionsVars

\* the call returns; the provider is ready for the next one
CallReturns ==
    /\ callOptions.pc = "prepared"
    /\ callOptions' = [pc |-> "idle", config |-> callOptions.config]
    /\ UNCHANGED nonOptionsVars

NextOptions ==
    \/ \E userOpts \in UserOptions : PrepareOptions(userOpts)
    \/ CallReturns

SpecOptions == InitOptions /\ [][NextOptions]_vars

----------------------------------------------------------------------------
(* Health monitoring: src/unnamed/part_001 (BaseProvider.isHealthy,             *)
(* _updateHealthStatus, _updatePerformanceMetrics) and _checkHttpHealth of      *)
(* OllamaProvider (src/src/providers/mixins/cache-mixin.js)                      *)

MaxChecks == 4      \* isHealthy calls of one provider
MaxInFlight == 2    \* isHealthy calls awaiting their backend at one time

HttpOk == 200       \* response.status === 200

\* the providers by the branch of isHealthy they take: OllamaProvider has
\* _checkHttpHealth, a plain HTTP provider uses httpClient.get, an SDK provider
\* checkSDKAvailability
HealthProviders == {"ollama", "http", "sdk"}

\* what the backend of a check answers: a response with a status (0: none), the
\* boolean of checkSDKAvailability, or a throw
Answered(status) == [threw |-> FALSE, status |-> status, available |-> FALSE]
Available(flag) == [threw |-> FALSE, status |-> 0, available |-> flag]
Threw == [threw |-> TRUE, status |-> 0, available |-> FALSE]

BackendAnswers(name) ==
    IF name = "sdk" THEN {Available(TRUE), Available(FALSE), Threw}
    ELSE {Answered(HttpOk), Answered(204), Threw}

\* _checkHttpHealth(): response.status === 200, false when axios.get throws
CheckHttpHealth(answer) == ~answer.threw /\ answer.status = HttpOk

\* mutant: a successful check leaves the failure counter as it is
UpdateHealthStatusObject_NoReset(status, isHealthy, t) ==
    [status EXCEPT !.lastCheck = t,
                   !.isHealthy = IF isHealthy THEN "true" ELSE "false",
                   !.consecutiveFailures = IF isHealthy THEN @ ELSE @ + 1]

\* _updateHealthStatus(isHealthy, responseTime, error) on this._healthStatus
UpdateHealthStatusObject(status, isHealthy, t) ==
    [status EXCEPT !.lastCheck = t,
                   !.isHealthy = IF isHealthy THEN "true" ELSE "false",
                   !.consecutiveFailures = IF isHealthy THEN 0 ELSE @ + 1]

\* _updatePerformanceMetrics(responseTime, error) on this._performanceMetrics
UpdatePerformanceMetrics(metrics, responseTime, failed) ==
    [requestCount |-> metrics.requestCount + 1,
     totalResponseTime |-> metrics.totalResponseTime + responseTime,
     errorCount |-> metrics.errorCount + (IF failed THEN 1 ELSE 0)]

\* new Provider(config): no check made yet
InitHealth ==
    /\ \E name \in HealthProviders :
          health = [pc |-> "ready", provider |-> name,
                    status |-> [lastCheck |-> -1, isHealthy |-> "null",
                                consecutiveFailures |-> 0],
                    metrics |-> [requestCount |-> 0, totalResponseTime |-> 0,
                                 errorCount |-> 0],
                    inFlight |-> 0, started |-> 0, results |-> << >>]
    /\ IdleCache /\ IdleLedger /\ IdleRetry /\ IdleStream /\ IdleBatch
    /\ IdleSnapshot /\ IdleDispatch /\ IdleExtract /\ IdleOptions

\* isHealthy() up to its await: the backend is asked
IsHealthyStarts ==
    /\ health.started < MaxChecks
    /\ health.inFlight < MaxInFlight
    /\ health' = [health EXCEPT !.started = @ + 1, !.inFlight = @ + 1]
    /\ UNCHANGED nonHealthVars

\* isHealthy() after its await: the status and the metrics are updated and the
\* result is returned; a throw of the backend is caught and counts as unhealthy
IsHealthyCompletes(answer, elapsed) ==
    LET isHealthy == IF health.provider = "ollama" THEN CheckHttpHealth(answer)
                     ELSE IF health.provider = "http" THEN answer.status = HttpOk
                     ELSE answer.available
        caught == answer.threw /\ health.provider # "ollama"
        result == IF caught THEN FALSE ELSE isHealthy
    IN /\ health.inFlight > 0
       /\ health' = [health EXCEPT
              !.inFlight = @ - 1,
              !.status = UpdateHealthStatusObject(@, result, now),
              !.metrics = UpdatePerformanceMetrics(@, IF caught THEN 0 ELSE elapsed,
                                                   caught),
              !.results = Append(@, result)]
       /\ UNCHANGED nonHealthVars

NextHealth ==
    \/ IsHealthyStarts
    \/ \E answer \in BackendAnswers(health.provider), elapsed \in {0, 1} :
          IsHealthyCompletes(answer, elapsed)

SpecHealth == InitHealth /\ [][NextHealth]_vars

----------------------------------------------------------------------------
(* Claims about the Cache Store *)

Exists(name) == caches[name] # NoCache
Stored(name, key) == Exists(name) /\ HasKey(caches[name].data, key)
EntryOf(name, key) == caches[name].data[KeyIndex(caches[name].data, key)]

\* C1: after each set call returns, the cache holds at most maxSize entries
\* (new keys and overwrites, every maxSize >= 1).
C1_SizeWithinMaxAfterSet ==
    \A n \in CacheNames :
        (lastOp.op = "set" /\ lastOp.name = n) =>
            Len(caches[n].data) <= caches[n].maxSize

\* C1 witness: a set that found the cache full has evicted and left it exactly full,
\* with a maxSize large enough for the 20% batch to be non-empty.
C1_Witness ==
    \E n \in CacheNames :
        /\ lastOp.op = "set" /\ lastOp.name = n
        /\ RemoveCount(caches[n].maxSize) >= 1
        /\ caches[n].stats.deletes >= 1
        /\ Len(caches[n].data) = caches[n].maxSize

\* C9: an entry set with ttl T at time t has expiry t + T; no other step changes a
\* stored entry; and a get or has of a stored entry answers with the entry exactly
\* while now <= t + T and reports it absent (removing it) once now > t + T.
C9_StepOk ==
    \A n \in CacheNames, k \in Keys :
        LET did(op) == lastOp'.op = op /\ lastOp'.name = n /\ lastOp'.key = k
            after == caches'[n].data[KeyIndex(caches'[n].data, k)]
        IN /\ (did("set") /\ lastOp'.ttl >= 1) =>
                 /\ HasKey(caches'[n].data, k)
                 /\ after.timestamp = now
                 /\ after.expiry = now + lastOp'.ttl
                 /\ after.value = lastOp'.result
           /\ (Stored(n, k) /\ HasKey(caches'[n].data, k) /\ ~did("set")) =>
                 after = EntryOf(n, k)
           /\ (Stored(n, k) /\ did("get")) =>
                 IF now <= EntryOf(n, k).expiry
                 THEN lastOp'.result = EntryOf(n, k).value /\ HasKey(caches'[n].data, k)
                 ELSE lastOp'.result = 0 /\ ~HasKey(caches'[n].data, k)
           /\ (Stored(n, k) /\ did("has")) =>
                 IF now <= EntryOf(n, k).expiry
                 THEN lastOp'.result = 1 /\ HasKey(caches'[n].data, k)
                 ELSE lastOp'.result = 0 /\ ~HasKey(caches'[n].data, k)

C9_PresentUntilTtl == [][C9_StepOk]_vars

\* C9 witness: a get at the last instant of the ttl (now = t + T, t < now) returned
\* the value.
C9_Witness ==
    \E n \in CacheNames, k \in Keys :
        /\ lastOp = Returned("get", n, k, lastOp.result)
        /\ lastOp.result # 0
        /\ Stored(n, k)
        /\ EntryOf(n, k).expiry = now
        /\ EntryOf(n, k).timestamp < now

\* C10: a get or has that finds an entry with now > expiresAt deletes it, reports it
\* absent and counts a miss (the miss counter grows by one).
C10_ExpiredStepOk ==
    \A n \in CacheNames, k \in Keys :
        (/\ Stored(n, k) /\ now > EntryOf(n, k).expiry
         /\ lastOp'.op \in {"get", "has"} /\ lastOp'.name = n /\ lastOp'.key = k) =>
            /\ ~HasKey(caches'[n].data, k)
            /\ lastOp'.result = 0
            /\ caches'[n].stats.misses = caches[n].stats.misses + 1

C10_ExpiredReadCountsMiss == [][C10_ExpiredStepOk]_vars

\* the entries of cache n before a set(key) step whose keys are gone after it, and
\* those that are still there (the entry of the key written is replaced, not evicted)
EvictedBySet(n, key) ==
    { caches[n].data[i] : i \in { j \in 1..Len(caches[n].data) :
          /\ caches[n].data[j].key # key
          /\ ~HasKey(caches'[n].data, caches[n].data[j].key) } }

SurvivorsOfSet(n, key) ==
    { caches[n].data[i] : i \in { j \in 1..Len(caches[n].data) :
          /\ caches[n].data[j].key # key
          /\ HasKey(caches'[n].data, caches[n].data[j].key) } }

\* C20: when set finds the cache at or over maxSize, the entries it evicts are the
\* oldest by insertion timestamp: no entry that survives the eviction is older than
\* an entry that was evicted.
C20_SetStepOk ==
    \A n \in CacheNames :
        (lastOp'.op = "set" /\ lastOp'.name = n /\ Exists(n)
            /\ Len(caches[n].data) >= caches[n].maxSize) =>
            \A e \in EvictedBySet(n, lastOp'.key), s \in SurvivorsOfSet(n, lastOp'.key) :
                e.timestamp <= s.timestamp

C20_EvictsOldestByTimestamp == [][C20_SetStepOk]_vars

\* the entry is live: it has no expiry, or its expiry has not passed
IsLive(entry) == entry.expiry = 0 \/ now <= entry.expiry

\* C21: a get or has of a live (unexpired) entry never changes that entry's insertion
\* timestamp, its expiry, or the set of stored entries, so a read never changes which
\* entries a later eviction removes (the cache is not LRU).
C21_ReadStepOk ==
    \A n \in CacheNames, k \in Keys :
        (/\ Stored(n, k) /\ IsLive(EntryOf(n, k))
         /\ lastOp'.op \in {"get", "has"} /\ lastOp'.name = n /\ lastOp'.key = k) =>
            /\ caches'[n].data = caches[n].data
            /\ caches'[n].maxSize = caches[n].maxSize
            /\ TrimCache(caches'[n]).data = TrimCache(caches[n]).data

C21_ReadsLeaveEntriesAlone == [][C21_ReadStepOk]_vars

\* C21 witness: a get has hit an entry that is older than another stored entry and
\* was inserted before the current instant
C21_Witness ==
    \E n \in CacheNames, k \in Keys :
        /\ lastOp.op = "get" /\ lastOp.name = n /\ lastOp.key = k
        /\ Stored(n, k)
        /\ lastOp.result = EntryOf(n, k).value
        /\ caches[n].stats.hits = 1
        /\ EntryOf(n, k).timestamp < now
        /\ \E i \in 1..Len(caches[n].data) :
              caches[n].data[i].timestamp > EntryOf(n, k).timestamp

\* the sweep of cache n is overdue
SweepOverdue(n) == Exists(n) /\ now - caches[n].lastCleanup > cleanupInterval

\* the step has swept cache n: no entry whose expiry has passed is left, read or
\* not, and lastCleanup is the current instant
SweptAfter(n) ==
    /\ \A i \in 1..Len(caches'[n].data) :
          caches'[n].data[i].expiry = 0 \/ now <= caches'[n].data[i].expiry
    /\ caches'[n].lastCleanup = now

\* C22 as claimed: whenever now - lastCleanup > cleanupInterval a sweep runs, at
\* whichever operation on the cache comes next: it removes every entry whose expiry
\* has passed, read or not, and sets lastCleanup to now.
C22_OverdueStepOk ==
    \A n \in CacheNames :
        (SweepOverdue(n) /\ lastOp'.op \in {"set", "get", "has", "delete"}
            /\ lastOp'.name = n) => SweptAfter(n)

C22_SweepWheneverOverdue == [][C22_OverdueStepOk]_vars

\* C22 amended: a set call made while now - lastCleanup > cleanupInterval runs the
\* sweep before it returns; no other operation starts one.
C22_SetStepOk ==
    \A n \in CacheNames :
        /\ (SweepOverdue(n) /\ lastOp'.op = "set" /\ lastOp'.name = n) => SweptAfter(n)
        /\ (Exists(n) /\ caches'[n] # NoCache
               /\ caches'[n].lastCleanup # caches[n].lastCleanup)
              => SweepOverdue(n) /\ lastOp'.op = "set" /\ lastOp'.name = n

C22_SweepOnOverdueSet == [][C22_SetStepOk]_vars

\* C22 witness: a set made two instants after the last sweep has swept out the one
\* entry stored before it, which was never read
C22_Witness ==
    \E n \in CacheNames :
        /\ lastOp.op = "set" /\ lastOp.name = n
        /\ now > cleanupInterval
        /\ caches[n].lastCleanup = now
        /\ caches[n].stats = [hits |-> 0, misses |-> 0, sets |-> 2, deletes |-> 1]
        /\ Len(caches[n].data) = 1
        /\ caches[n].data[1].key = 2

\* the step leaves the entries of every cache as they are and creates no cache
EntriesUnchanged ==
    \A m \in DOMAIN caches :
        IF caches[m] = NoCache THEN caches'[m] = NoCache
        ELSE caches'[m] # NoCache /\ caches'[m].data = caches[m].data

\* C26: cache operations never throw on absent data: get, has, delete and stats on a
\* cache name or key that does not exist return the not-found sentinel (null, false,
\* false, null: 0 here) and leave every cache's entries unchanged.
C26_AbsentStepOk ==
    /\ \A n \in StoreNames, k \in StoreKeys :
          (~Stored(n, k) /\ lastOp'.op \in {"get", "has", "delete"}
              /\ lastOp'.name = n /\ lastOp'.key = k)
              => lastOp'.result = 0 /\ EntriesUnchanged
    /\ \A n \in StoreNames :
          (~Exists(n) /\ lastOp'.op = "stats" /\ lastOp'.name = n)
              => lastOp'.result = 0 /\ EntriesUnchanged

C26_AbsentReturnsSentinel == [][C26_AbsentStepOk]_vars

\* C26 witness: a get of a key of a cache that does not exist has returned null while
\* the other cache holds an entry
C26_Witness ==
    /\ lastOp = Returned("get", "cache2", 1, 0)
    /\ ~Exists("cache2")
    /\ Stored("cache1", 1)

\* C27: after clearAllCaches every named cache has size 0, every previously stored
\* key reads as not found and each cache's hit, miss, set and delete counters are 0,
\* while the caches themselves (names, maxSize, default ttl) remain.
C27_ClearStepOk ==
    lastOp'.op = "clearAll" =>
        \A n \in StoreNames :
            IF Exists(n)
            THEN /\ caches'[n] # NoCache
                 /\ Len(caches'[n].data) = 0
                 /\ caches'[n].stats = [hits |-> 0, misses |-> 0, sets |-> 0, deletes |-> 0]
                 /\ caches'[n].maxSize = caches[n].maxSize
                 /\ caches'[n].expiry = caches[n].expiry
                 /\ \A k \in StoreKeys :
                       /\ GetCacheObject(caches'[n], k, now)[2] = 0
                       /\ HasCacheObject(caches'[n], k, now)[2] = 0
            ELSE caches'[n] = NoCache

C27_ClearAllEmptiesEveryCache == [][C27_ClearStepOk]_vars

\* C27 witness: clearAllCaches has returned on a store with both caches, which are
\* empty with zeroed counters
C27_Witness ==
    /\ lastOp.op = "clearAll"
    /\ \A n \in StoreNames :
          /\ Exists(n)
          /\ caches[n].data = << >>
          /\ caches[n].stats.sets = 0
          /\ caches[n].maxSize = DefaultMaxSize

\* what the counters say is stored, less what is stored: sets - deletes - size
StatsSlack(cache) ==
    IF cache = NoCache THEN 0
    ELSE cache.stats.sets - cache.stats.deletes - Len(cache.data)

DeletesOf(cache) == IF cache = NoCache THEN 0 ELSE cache.stats.deletes

StoredKeys(cache) ==
    IF cache = NoCache THEN {} ELSE {cache.data[i].key : i \in 1..Len(cache.data)}

\* one operation, clear included: the entries stay within sets - deletes and every
\* entry that goes is counted as a delete
C36_CountedStepOk ==
    \A n \in DOMAIN caches :
        /\ StatsSlack(caches'[n]) >= 0
        /\ Cardinality(StoredKeys(caches[n]) \ StoredKeys(caches'[n]))
              <= DeletesOf(caches'[n]) - DeletesOf(caches[n])

\* C36 as stated: in every state reachable through set, get, has, delete, sweep,
\* eviction and clear the stored entries are at most sets - deletes, and no entry
\* is removed, by clear either, without the delete counter being incremented
C36_EveryRemovalCounted == [][C36_CountedStepOk]_vars

\* one operation: the entries stay within sets - deletes; apart from a clear, the
\* difference grows (by one) only when a set overwrites a stored key, and every
\* entry that goes is counted as a delete
C36_StepOk ==
    \A n \in DOMAIN caches :
        /\ StatsSlack(caches'[n]) >= 0
        /\ lastOp'.op = "clearAll" =>
              /\ StoredKeys(caches'[n]) = {}
              /\ StatsSlack(caches'[n]) = 0
              /\ DeletesOf(caches'[n]) = 0
        /\ lastOp'.op # "clearAll" =>
              /\ StatsSlack(caches'[n]) - StatsSlack(caches[n]) \in {0, 1}
              /\ StatsSlack(caches'[n]) - StatsSlack(caches[n]) = 1
                    => /\ lastOp'.op = "set"
                       /\ lastOp'.key \in StoredKeys(caches[n])
              /\ Cardinality(StoredKeys(caches[n]) \ StoredKeys(caches'[n]))
                    <= DeletesOf(caches'[n]) - DeletesOf(caches[n])

\* C36: for every named cache, in every state reachable through set, get, has,
\* delete, sweep, eviction and clear, the number of stored entries is at most
\* sets - deletes (the statistics counters), with equality when no key was
\* overwritten since the last clear; set, get, has, delete, sweep and eviction
\* remove no entry without the delete counter being incremented, and clear
\* removes every entry and leaves sets = deletes = 0.
C36_EntriesWithinSetsMinusDeletes == [][C36_StepOk]_vars

\* C36 witness: a key was set twice and its entry then expired and was dropped by a
\* read: two sets, one delete, nothing stored
C36_Witness ==
    /\ caches["test"] # NoCache
    /\ caches["test"].stats.sets = 2
    /\ caches["test"].stats.deletes = 1
    /\ caches["test"].data = << >>
    /\ lastOp.op \in {"get", "has"}
    /\ lastOp.result = 0

----------------------------------------------------------------------------
(* Claims about the Conversation Ledger *)

\* LLMClient.getLastMessage(): the last turn, or "null"
LastMessage(history) ==
    IF Len(history) > 0 THEN history[Len(history)] ELSE [role |-> "null"]

\* the turn a step appends, when the step is an append
AppendedTurn ==
    IF \E c \in Calls : calls[c].pc = "idle" /\ calls'[c].pc = "awaiting"
    THEN LET c == CHOOSE c \in Calls : calls[c].pc = "idle" /\ calls'[c].pc = "awaiting"
         IN Turn("user", Message(c), now)
    ELSE IF \E c \in Calls : calls[c].pc = "awaiting" /\ calls'[c].pc = "resolved"
    THEN LET c == CHOOSE c \in Calls : calls[c].pc = "awaiting" /\ calls'[c].pc = "resolved"
         IN Turn("assistant", Response(c), now)
    ELSE Turn("user", 0, now)

IsAppendStep ==
    /\ conversationHistory' # conversationHistory
    /\ conversationHistory' # << >>

\* C2: after each append the ledger length is at most maxSize and last() is the turn
\* appended most recently.
C2_AppendStepOk ==
    IsAppendStep =>
        /\ Len(conversationHistory') <= maxHistorySize
        /\ LastMessage(conversationHistory') = AppendedTurn

C2_LengthWithinMaxAfterAppend == [][C2_AppendStepOk]_vars

\* position of the turn of call c with the given role in the ledger, 0 when absent
PosOf(role, c) ==
    LET turn == Turn(role, c, now)
    IN IF \E i \in 1..Len(conversationHistory) : conversationHistory[i] = turn
       THEN CHOOSE i \in 1..Len(conversationHistory) : conversationHistory[i] = turn
       ELSE 0

\* call a was started before call b and b completed (successfully) before a did
ResolvedOutOfOrder(a, b) ==
    /\ calls[a].pc = "resolved" /\ calls[b].pc = "resolved"
    /\ calls[a].startedAt < calls[b].startedAt
    /\ calls[b].finishedAt < calls[a].finishedAt

AllTurnsPresent(a, b) ==
    \A role \in {"user", "assistant"}, c \in {a, b} : PosOf(role, c) # 0

\* C3 as claimed: the second call's turns (user and assistant) precede the first
\* call's turns in the ledger.
C3_SecondCallTurnsFirst ==
    \A a \in Calls, b \in Calls :
        (ResolvedOutOfOrder(a, b) /\ AllTurnsPresent(a, b)) =>
            \A rb \in {"user", "assistant"}, ra \in {"user", "assistant"} :
                PosOf(rb, b) < PosOf(ra, a)

\* C3 amended: user turns are in initiation order and assistant turns in completion
\* order: first call's user turn, second call's user turn, second call's assistant
\* turn, first call's assistant turn (whichever of them are still in the ledger).
C3_UserByStartAssistantByCompletion ==
    \A a \in Calls, b \in Calls :
        ResolvedOutOfOrder(a, b) =>
            LET order == <<PosOf("user", a), PosOf("user", b),
                           PosOf("assistant", b), PosOf("assistant", a)>>
            IN \A i \in 1..4, j \in 1..4 :
                  (i < j /\ order[i] # 0 /\ order[j] # 0) => order[i] < order[j]

\* C3 witness: call 1 started first, call 2 resolved first, all four turns present
C3_Witness == ResolvedOutOfOrder(1, 2) /\ AllTurnsPresent(1, 2)

\* the ledger after the step is the ledger before it, less the turns evicted from its
\* front, plus the one turn given
AppendsOnly(turn) ==
    \E k \in 0..Len(conversationHistory) :
        conversationHistory' =
            Append(SubSeq(conversationHistory, k + 1, Len(conversationHistory)), turn)

\* C11: sendChat / sendVision append the user turn before the call is made and the
\* assistant turn only after it has succeeded; when the call fails the ledger has
\* gained the user turn and no assistant turn, and the tracked call rejects.
C11_StepOk ==
    \A c \in Calls :
        /\ (calls[c].pc = "idle" /\ calls'[c].pc # "idle")
              => /\ calls'[c].pc = "awaiting"
                 /\ AppendsOnly(Turn("user", Message(c), now))
        /\ (calls[c].pc # "resolved" /\ calls'[c].pc = "resolved")
              => /\ calls[c].pc = "awaiting"
                 /\ AppendsOnly(Turn("assistant", Response(c), now))
        /\ (calls[c].pc # "rejected" /\ calls'[c].pc = "rejected")
              => /\ calls[c].pc = "awaiting"
                 /\ conversationHistory' = conversationHistory
                 /\ historySize' = historySize

C11_UserBeforeAssistantAfterSuccess == [][C11_StepOk]_vars

\* C11 witness: a tracked call has failed; its user turn is in the ledger and no
\* assistant turn of it is
C11_Witness ==
    \E c \in Calls :
        /\ calls[c].pc = "rejected"
        /\ PosOf("user", c) # 0
        /\ PosOf("assistant", c) = 0
        /\ LastMessage(conversationHistory) = Turn("user", Message(c), now)

\* the ledger before the step without its first n turns
WithoutOldest(n) == SubSeq(conversationHistory, n + 1, Len(conversationHistory))

\* the ledger after the step without the turn appended last
WithoutNewest == SubSeq(conversationHistory', 1, Len(conversationHistory') - 1)

C32_AppendStepOk ==
    IsAppendStep =>
        IF Len(conversationHistory) >= maxHistorySize
        THEN /\ Len(conversationHistory')
                   = Len(conversationHistory) - ((2 * maxHistorySize) \div 10) + 1
             /\ WithoutNewest = WithoutOldest((2 * maxHistorySize) \div 10)
        ELSE /\ Len(conversationHistory') = Len(conversationHistory) + 1
             /\ WithoutNewest = conversationHistory

C34_StepOk ==
    conversationHistory' # << >> =>
        \E k \in 0..Len(conversationHistory) :
            \/ conversationHistory' = WithoutOldest(k)
            \/ WithoutNewest = WithoutOldest(k)

\* C34: after any sequence of appends and evictions the ledger's contents are a
\* contiguous suffix of the sequence of all turns ever appended, in append order:
\* every step keeps a suffix of the ledger in its order and adds at most one turn
\* after it, so eviction only removes turns from the oldest end and never reorders
\* or drops a turn in the middle.
C34_ContiguousSuffix == [][C34_StepOk]_vars

\* C34 witness: with maxSize 5, both calls were started and call 2 resolved; an
\* eviction removed the user turn of call 1 and the later turns kept their order
C34_Witness ==
    /\ maxHistorySize = 5
    /\ Len(conversationHistory) = 5
    /\ calls[1].pc = "awaiting"
    /\ calls[2].pc = "resolved"
    /\ PosOf("user", 1) = 0
    /\ PosOf("user", 2) = 1
    /\ PosOf("assistant", 2) = 2

\* C35: in every reachable state, under any interleaving of concurrent tracked calls
\* at their suspension points and any mix of addToHistory and clearHistory, the
\* ledger's recorded size counter (_historySize) equals the actual number of stored
\* turns.
C35_SizeCounterIsLength == historySize = Len(conversationHistory)

\* C35 witness: with maxSize 5 an eviction has taken place while a tracked call was
\* suspended, and the counter stands at 5
C35_Witness ==
    /\ maxHistorySize = 5
    /\ historySize = 5
    /\ calls[1].pc = "awaiting"
    /\ calls[2].pc = "rejected"
    /\ PosOf("user", 1) = 0
    /\ PosOf("user", 2) = 1

UserTurn(c) == Turn("user", Message(c), now)
AssistantTurn(c) == Turn("assistant", Response(c), now)

\* the call whose message or response the turn carries (0: a turn appended directly)
CallOf(turn) == turn.content[1].text

\* the turns of every call in the ledger: of two turns of one call the first is its
\* user turn and the second its assistant turn (so there is at most one of each), a
\* call that has not started has none and only a resolved call has an assistant turn
C39_TurnsInOrder ==
    /\ \A i, j \in 1..Len(conversationHistory) :
          (i < j /\ CallOf(conversationHistory[i]) # 0
                 /\ CallOf(conversationHistory[i]) = CallOf(conversationHistory[j]))
              => /\ conversationHistory[i].role = "user"
                 /\ conversationHistory[j].role = "assistant"
    /\ \A i \in 1..Len(conversationHistory) :
          CallOf(conversationHistory[i]) # 0
              => /\ calls[CallOf(conversationHistory[i])].pc # "idle"
                 /\ conversationHistory[i].role = "assistant"
                       => calls[CallOf(conversationHistory[i])].pc = "resolved"

\* what one step contributes for every call: its user turn when it starts, its
\* assistant turn when it resolves, and no turn of a call at any other step
C39_StepOk ==
    /\ \A c \in Calls :
          /\ (calls[c].pc = "idle" /\ calls'[c].pc # "idle")
                => AppendsOnly(UserTurn(c))
          /\ (calls[c].pc = "awaiting" /\ calls'[c].pc = "resolved")
                => AppendsOnly(AssistantTurn(c))
    /\ (\A c \in Calls : calls'[c].pc = calls[c].pc \/ calls'[c].pc = "rejected")
          => \A i \in 1..Len(conversationHistory') :
                CallOf(conversationHistory'[i]) # 0
                    => \E j \in 1..Len(conversationHistory) :
                          conversationHistory[j] = conversationHistory'[i]

\* C39: under any interleaving of concurrent tracked calls, whenever both turns of
\* one call are present in the ledger the call's user turn precedes its assistant
\* turn, and each successful call contributes exactly one user and one assistant
\* turn (each failed call exactly one user turn).
C39_OneOrderedPairPerCall == [][C39_StepOk /\ C39_TurnsInOrder']_vars

\* C39 witness: call 1 started first and resolved last, call 2 failed in between;
\* the ledger holds user 1, user 2, assistant 1
C39_Witness ==
    /\ calls[1].pc = "resolved"
    /\ calls[2].pc = "rejected"
    /\ calls[1].startedAt < calls[2].startedAt
    /\ calls[2].finishedAt < calls[1].finishedAt
    /\ Len(conversationHistory) = 3
    /\ PosOf("user", 1) = 1
    /\ PosOf("user", 2) = 2
    /\ PosOf("assistant", 1) = 3

\* C16: getHistory returns a copy: adding, removing or reordering elements of the
\* returned sequence never changes the length, order or turns that later getHistory,
\* length or last calls report.
C16_MutationStepOk ==
    (returned'.taken /\ returned'.op \in Mutations /\ returned'.items # returned.items)
        => /\ conversationHistory' = conversationHistory
           /\ Len(conversationHistory') = Len(conversationHistory)
           /\ LastMessage(conversationHistory') = LastMessage(conversationHistory)

C16_SnapshotIsCopy == [][C16_MutationStepOk]_vars

----------------------------------------------------------------------------
(* Claims about the retry policy *)

\* the first n invocations of the operation all failed with a retryable error
FirstFailedRetryable(n) ==
    /\ Len(request.log) >= n
    /\ \A i \in 1..n : ~request.log[i].ok /\ IsRetryableError(request.log[i].error)

\* C4: with maxAttempts = N, an operation that fails with a retryable error on its
\* first k < N attempts and then succeeds makes the call return that success result;
\* one that fails with a retryable error on all N attempts makes the call reject with
\* the operation's error unchanged, after exactly N invocations.
C4_RetryOutcome ==
    /\ \A k \in 0..(retryAttempts - 1) :
          (Len(request.log) = k + 1 /\ FirstFailedRetryable(k) /\ request.log[k + 1].ok)
              => /\ request.pc = "resolved"
                 /\ request.outcome = request.log[k + 1]
    /\ FirstFailedRetryable(retryAttempts)
          => /\ request.pc = "rejected"
             /\ request.outcome = request.log[retryAttempts]
             /\ request.invocations = retryAttempts
             /\ Len(request.log) = retryAttempts

\* C4 witness: three attempts configured, all three failed with a retryable error
C4_Witness ==
    /\ retryAttempts = 3
    /\ FirstFailedRetryable(3)
    /\ request.pc = "rejected"
    /\ request.waits = <<retryDelay, retryDelay * 2>>

C33_RetryTerminates ==
    /\ [](request.invocations <= retryAttempts)
    /\ (request.pc = "calling") ~> (request.pc \in {"resolved", "rejected"})

\* C33 witness: with two attempts configured the first invocation failed with a
\* retryable error, the delay elapsed, and the second invocation resolved the call
C33_Witness ==
    /\ retryAttempts = 2
    /\ request.pc = "resolved"
    /\ request.invocations = 2
    /\ Len(request.waits) = 1
    /\ ~request.log[1].ok
    /\ request.log[2].ok

\* the transport errors that are none of: a status of 408, 429, 500, 502, 503, 504; a
\* code of ECONNRESET, ECONNREFUSED, ETIMEDOUT; a timeout
NonRetryableErrors ==
    { e \in TransportErrors :
        /\ e.status \notin {408, 429, 500, 502, 503, 504}
        /\ e.code \notin {"ECONNRESET", "ECONNREFUSED", "ETIMEDOUT"}
        /\ ~e.timeout }

\* the first invocation of the operation failed with a non-retryable error
FirstFailedNonRetryable ==
    /\ Len(request.log) >= 1
    /\ ~request.log[1].ok
    /\ \E e \in NonRetryableErrors : request.log[1].error = Thrown(e, 1)

\* C12: when the first attempt fails with a non-retryable error the call rejects with
\* that error at once: the operation is invoked exactly once and no backoff delay is
\* waited.
C12_NonRetryableFailsAtOnce ==
    FirstFailedNonRetryable =>
        /\ request.pc = "rejected"
        /\ request.outcome = request.log[1]
        /\ request.invocations = 1
        /\ Len(request.log) = 1
        /\ request.waits = << >>

\* C12 witness: retries are configured and the first attempt failed with a 404
C12_Witness ==
    /\ retryAttempts > 1
    /\ FirstFailedNonRetryable
    /\ request.log[1].error.status = 404
    /\ request.pc = "rejected"

----------------------------------------------------------------------------
(* Claims about live streaming *)

\* the terminal events emitted so far
EndEvents == SelectSeq(stream.emitted, LAMBDA e : e.type = "end")

\* a line carrying a terminal marker has been processed
DoneMarkerSeen ==
    \E i \in 1..Len(stream.emitted) :
        stream.emitted[i].type = "data" /\ stream.emitted[i].done

\* C5: the terminal ('end') event is emitted exactly once per stream, for every
\* sequence of chunks (also with more than one done marker) and whether or not the
\* transport later closes.
C5_TerminalExactlyOnce ==
    /\ Len(EndEvents) <= 1
    /\ (DoneMarkerSeen \/ stream.transport = "ended") => Len(EndEvents) = 1

\* C6: when the transport closes without any line having carried a terminal marker,
\* one 'end' event is synthesized with the content accumulated so far, whether or not
\* the consumer has registered listeners.
C6_EndSynthesizedOnClose ==
    (stream.transport = "ended" /\ ~DoneMarkerSeen) =>
        /\ Len(EndEvents) = 1
        /\ EndEvents[1].content = stream.accumulatedContent

\* the fragments of the partial ('data', done: false) events emitted so far
EmittedFragments ==
    LET partial == SelectSeq(stream.emitted, LAMBDA e : e.type = "data" /\ ~e.done)
    IN [i \in 1..Len(partial) |-> partial[i].content]

\* the content fragment of a parsed line by the field precedence message.content,
\* content, response ("" when the line carries none)
LineFragment(line) ==
    IF line.message # "" THEN line.message
    ELSE IF line.content # "" THEN line.content
    ELSE line.response

\* the content fragments of the parseable lines received so far, in arrival order
ArrivedFragments ==
    LET carrying == SelectSeq(stream.received,
                              LAMBDA l : ~l.blank /\ l.json /\ LineFragment(l) # "")
    IN [i \in 1..Len(carrying) |-> LineFragment(carrying[i])]

\* C13: the partial ('data') events are emitted in the order their chunks arrive and,
\* within a chunk, in line order: the sequence of emitted fragments equals the sequence
\* of content fragments of the parseable lines in arrival order.
C13_FragmentsInArrivalOrder == EmittedFragments = ArrivedFragments

\* C38: once the complete ('end') event has been emitted no further partial event
\* is emitted on that stream, even if more content lines or chunks arrive afterwards.
C38_NoPartialAfterEnd ==
    \A i, j \in 1..Len(stream.emitted) :
        (i < j /\ stream.emitted[i].type = "end")
            => ~(stream.emitted[j].type = "data" /\ ~stream.emitted[j].done)

\* the fragments of the partial events of a sequence of emitted events
PartialFragments(emitted) ==
    LET partial == SelectSeq(emitted, LAMBDA e : e.type = "data" /\ ~e.done)
    IN [i \in 1..Len(partial) |-> partial[i].content]

\* what the handler does with the same lines delivered in one chunk
OneChunk == ProcessChunk(NewStream(stream.impl), stream.sent)

\* C37: live-mode reconstruction does not depend on how the transport splits the
\* byte stream into chunks: for the same sequence of newline-delimited lines, every
\* partition into chunks (also with a chunk boundary in the middle of a line) yields
\* the same sequence of partial fragments and the same final content.
C37_ChunkingIndependent ==
    stream.pending = NoLine =>
        /\ PartialFragments(stream.emitted) = PartialFragments(OneChunk.emitted)
        /\ stream.accumulatedContent = OneChunk.accumulatedContent

\* the partial ('data', done: false) events among the first n events emitted
PartialsBefore(n) ==
    SelectSeq(SubSeq(stream.emitted, 1, n), LAMBDA e : e.type = "data" /\ ~e.done)

\* the in-order concatenation of the fragments of a sequence of partial events
RECURSIVE ConcatContents(_)
ConcatContents(events) ==
    IF events = << >> THEN ""
    ELSE ConcatContents(SubSeq(events, 1, Len(events) - 1)) \o events[Len(events)].content

\* C31: each partial event carries a token count one greater than the previous
\* partial event's (starting at 1), and the complete ('end') event's content equals
\* the in-order concatenation of the fragments of all partial events emitted before
\* it, with its output token count equal to their number.
C31_CountsAndContentAgree ==
    /\ \A i \in 1..Len(PartialsBefore(Len(stream.emitted))) :
          PartialsBefore(Len(stream.emitted))[i].tokens = i
    /\ \A n \in 1..Len(stream.emitted) :
          stream.emitted[n].type = "end"
              => /\ stream.emitted[n].content = ConcatContents(PartialsBefore(n - 1))
                 /\ stream.emitted[n].tokens = Len(PartialsBefore(n - 1))

\* C31 witness: two partial events were emitted, then the complete event with both
\* fragments and a count of two
C31_Witness ==
    /\ Len(stream.emitted) >= 4
    /\ stream.emitted[1].type = "data" /\ stream.emitted[1].content = "a"
    /\ stream.emitted[2].type = "data" /\ stream.emitted[2].content = "b"
    /\ stream.emitted[2].tokens = 2
    /\ stream.emitted[4].type = "end"
    /\ stream.emitted[4].content = "ab"
    /\ stream.emitted[4].tokens = 2

----------------------------------------------------------------------------
(* Claims about the Dispatch Core *)

\* the message names the provider and the operation
Carries(message, name, operation) ==
    /\ \E i \in 1..Len(message) : message[i] = name
    /\ \E i \in 1..Len(message) :
          /\ i + Len(operation) - 1 <= Len(message)
          /\ SubSeq(message, i, i + Len(operation) - 1) = operation

\* a NormalizedResponse of the provider
IsNormalizedResponse(value, name) ==
    /\ value.type = "response"
    /\ value.provider = name
    /\ value.content # << >>

Settled == dispatch.pc = "settled"

C15_StreamFailureIsErrorEvent ==
    (Settled /\ IsStreaming(dispatch.op) /\ dispatch.failed) =>
        /\ dispatch.outcome.kind = "resolved"
        /\ dispatch.outcome.value.type = "stream"
        /\ \E i \in 1..Len(dispatch.events) :
              /\ dispatch.events[i].type = "error"
              /\ Carries(dispatch.events[i].error.message, dispatch.provider,
                         OperationName(dispatch.op))

\* the first transport request failed with an error the retry policy retries, and
\* that very error was surfaced to the caller
FirstFailureSurfaced ==
    /\ Settled
    /\ dispatch.outcome.kind = "rejected"
    /\ dispatch.outcome.error.cause.thrownBy = 1
    /\ \/ dispatch.outcome.error.cause.status \in {408, 429, 500, 502, 503, 504}
       \/ dispatch.outcome.error.cause.code \in {"ECONNRESET", "ECONNREFUSED", "ETIMEDOUT"}
       \/ dispatch.outcome.error.cause.timeout

\* C17: for an HTTP-style provider every transport request issued by chat, vision,
\* streamChat and streamVision is made through the retry policy, so a retryable
\* failure of the first request is retried rather than surfaced.
C17_TransportThroughRetryPolicy ==
    (dispatch.pc # "idle" /\ ProviderType(dispatch.provider) = "http") =>
        /\ dispatch.posts = 0
        /\ retryAttempts > 1 => ~FirstFailureSurfaced

\* C18: for an SDK-style provider each chat / vision / stream operation invokes
\* createMessage exactly once, whatever error it raises (also one the retry policy
\* would classify as retryable), and never incurs a backoff delay.
C18_SdkInvokedOnce ==
    (dispatch.pc # "idle" /\ ProviderType(dispatch.provider) = "sdk" /\ dispatch.valid) =>
        /\ dispatch.created = 1
        /\ request.invocations = 0
        /\ request.waits = << >>
        /\ request.pc = "idle"
        /\ (Settled /\ dispatch.failed)
              => /\ dispatch.outcome.kind = "rejected"
                 /\ dispatch.outcome.error.cause.thrownBy = 1

\* C18 witness: with retries configured, createMessage failed with a 503 and the
\* operation has rejected
C18_Witness ==
    /\ Settled
    /\ ProviderType(dispatch.provider) = "sdk"
    /\ retryAttempts > 1
    /\ dispatch.failed
    /\ dispatch.outcome.kind = "rejected"
    /\ dispatch.outcome.error.cause.status = 503
    /\ dispatch.created = 1

\* C24: a chat or vision call (plain or history-tracked) whose message or image
\* formatting fails is rejected immediately: the transport and the SDK are invoked
\* zero times and no retry or backoff delay takes place.
C24_FormatFailureRejectsAtOnce ==
    (/\ dispatch.pc # "idle" /\ ~dispatch.valid
     /\ InnerOperation(dispatch.op) \in {"chat", "vision"}) =>
        /\ Settled
        /\ dispatch.failed
        /\ dispatch.outcome.kind = "rejected"
        /\ dispatch.outcome.error.cause = FormatFailure
        /\ dispatch.created = 0
        /\ dispatch.posts = 0
        /\ request.pc = "idle"
        /\ request.invocations = 0
        /\ request.log = << >>
        /\ request.waits = << >>

\* C24 witness: with retries configured, a vision call of an HTTP provider was given
\* an image it cannot format and has rejected
C24_Witness ==
    /\ Settled
    /\ dispatch.op = "vision"
    /\ dispatch.provider = "ollama"
    /\ ~dispatch.valid
    /\ retryAttempts > 1
    /\ dispatch.outcome.kind = "rejected"
    /\ dispatch.outcome.error.operation = <<"vision">>
    /\ request.invocations = 0

\* C25: for every key present in both the defaults and the caller's options the
\* merged value is the caller's; after validation temperature lies in [0,2] and
\* maxTokens is >= 1 for every numeric input, and a value inside the range is
\* unchanged.
C25_CallerWinsAndClamped ==
    callOptions.pc = "prepared" =>
        /\ \A k \in OptionKeys :
              (callOptions.defaults[k] # Absent /\ callOptions.user[k] # Absent)
                  => callOptions.merged[k] = callOptions.user[k]
        /\ IsNumber(callOptions.merged.temperature) =>
              /\ IsNumber(callOptions.valid.temperature)
              /\ callOptions.valid.temperature.n >= 0
              /\ callOptions.valid.temperature.n <= 20
              /\ (callOptions.merged.temperature.n >= 0
                    /\ callOptions.merged.temperature.n <= 20)
                    => callOptions.valid.temperature = callOptions.merged.temperature
        /\ IsNumber(callOptions.merged.maxTokens) =>
              /\ IsNumber(callOptions.valid.maxTokens)
              /\ callOptions.valid.maxTokens.n >= 1
              /\ callOptions.merged.maxTokens.n >= 1
                    => callOptions.valid.maxTokens = callOptions.merged.maxTokens

\* C25 witness: the configuration sets both options and the caller overrides both
\* with values outside the range: a temperature of 2.5 and a token count of 0
C25_Witness ==
    /\ callOptions.pc = "prepared"
    /\ callOptions.defaults.temperature = Num(3)
    /\ callOptions.defaults.maxTokens = Num(2)
    /\ callOptions.user.temperature = Num(25)
    /\ callOptions.user.maxTokens = Num(0)
    /\ callOptions.valid.temperature = Num(20)
    /\ callOptions.valid.maxTokens = Num(1)

----------------------------------------------------------------------------
(* Claims about the Response Normalizer *)

\* the first of message.content, content, response that the payload carries
FirstPresentField(object) ==
    IF object.message.present /\ object.message.content # << >>
    THEN object.message.content
    ELSE IF object.content # << >> THEN object.content
    ELSE IF object.response # << >> THEN object.response
    ELSE << >>

\* C19: content extraction follows the precedence message.content, then content, then
\* response, else the empty string, and never throws; a payload with message.content
\* "A" and content "B" yields "A".
C19_PrecedenceNeverThrows ==
    extracted.called =>
        /\ ~extracted.threw
        /\ payload # JsonNull => extracted.content = FirstPresentField(payload)
        /\ (payload # JsonNull /\ payload.message.present
              /\ payload.message.content = <<65>> /\ payload.content = <<66>>)
              => extracted.content = <<65>>

----------------------------------------------------------------------------
(* Claims about batch reconstruction *)

\* the content fragment of a parsed line
FragmentOf(object) ==
    IF object.message.present /\ Truthy(object.message.content)
    THEN object.message.content
    ELSE IF Truthy(object.content) THEN object.content
    ELSE object.response

\* the fragments of the lines that parse as JSON, concatenated in line order
RECURSIVE ConcatFragments(_)
ConcatFragments(lines) ==
    IF lines = << >> THEN << >>
    ELSE (IF JsonParse(Head(lines)).ok THEN FragmentOf(JsonParse(Head(lines)).value)
          ELSE << >>) \o ConcatFragments(Tail(lines))

LinesOf(text) == Split(text, Newline)

ExpectedContentOf == [text \in ResponseTexts |-> ConcatFragments(LinesOf(text))]

HasInvalidLine(text) == \E i \in 1..Len(LinesOf(text)) : ~JsonParse(LinesOf(text)[i]).ok

\* C7: batch reconstruction of a multi-line body yields content equal to the
\* concatenation, in line order, of the content fragments of all lines that parse.
C7_ContentIsConcatenation ==
    (requestCount > 0 /\ Len(LinesOf(responseText)) > 1) =>
        ExtractContent(finalResponse) = ExpectedContentOf[responseText]

\* C8: a line that fails to parse is skipped and every later valid line still
\* contributes its fragment; when no line of the body parses the content is "".
C8_InvalidLinesSkipped ==
    (requestCount > 0 /\ HasInvalidLine(responseText)) =>
        /\ ExtractContent(finalResponse) = ExpectedContentOf[responseText]
        /\ (\A i \in 1..Len(LinesOf(responseText)) : ~JsonParse(LinesOf(responseText)[i]).ok)
              => ExtractContent(finalResponse) = << >>

\* C30: the response cache never changes a reconstruction result: for any sequence
\* of raw bodies reconstructed by one provider, the result returned for each body
\* equals what reconstructing that body with an empty cache returns, i.e. a cached
\* result is reused only for an identical body.
C30_CacheIsTransparent ==
    (requestCount > 0 /\ IsStreamingResponse(responseText)) =>
        finalResponse = ReconstructionOf[responseText]

\* the last object of the lines that carries the done marker, when there is one
RECURSIVE LastDoneObject(_)
LastDoneObject(lines) ==
    IF lines = << >> THEN [found |-> FALSE, object |-> FallbackResponse]
    ELSE LET last == JsonParse(lines[Len(lines)])
         IN IF last.ok /\ last.value.done THEN [found |-> TRUE, object |-> last.value]
            ELSE LastDoneObject(SubSeq(lines, 1, Len(lines) - 1))

LastDoneObjectOf == [text \in ResponseTexts |-> LastDoneObject(LinesOf(text))]

\* C23: in batch reconstruction the terminal payload, from which the result's model
\* and usage metadata are taken, is the last parsed object that carries the done
\* marker, whatever content lines precede or follow it: the result is that object
\* with the accumulated content as its message.
C23_TerminalIsLastDoneObject ==
    (/\ requestCount > 0 /\ Len(LinesOf(responseText)) > 1
     /\ LastDoneObjectOf[responseText].found
     /\ ExpectedContentOf[responseText] # << >>) =>
        finalResponse =
            [LastDoneObjectOf[responseText].object EXCEPT
                !.message = [present |-> TRUE,
                             content |-> ExpectedContentOf[responseText]]]

\* the call in flight is getStreamChat or getStreamVision
IsTrackedStream(op) == op \in {"getStreamChat", "getStreamVision"}

\* one step of a tracked streaming call: the step that starts it appends the user
\* turn and nothing else, every later step leaves the history as it is
C28_StreamStepOk ==
    (dispatch'.pc # "idle" /\ IsTrackedStream(dispatch'.op)) =>
        IF dispatch.pc = "idle"
        THEN /\ Len(conversationHistory') = Len(conversationHistory) + 1
             /\ SubSeq(conversationHistory', 1, Len(conversationHistory))
                   = conversationHistory
             /\ conversationHistory'[Len(conversationHistory')].role = "user"
             /\ conversationHistory'[Len(conversationHistory')].content
                   = WrapContent(Message(1))
             /\ historySize' = historySize + 1
        ELSE UNCHANGED <<conversationHistory, historySize>>

\* C28: a history-tracked streaming call (getStreamChat / getStreamVision) appends
\* exactly one turn, the user turn, before starting the stream, and never appends an
\* assistant turn, not even after the stream completes.
C28_StreamAppendsOnlyUserTurn == [][C28_StreamStepOk]_vars

\* C28 witness: getStreamChat of an HTTP provider has resolved with the stream and
\* the history holds the user turn alone
C28_Witness ==
    /\ Settled
    /\ dispatch.op = "getStreamChat"
    /\ dispatch.provider = "base"
    /\ dispatch.outcome.kind = "resolved"
    /\ dispatch.outcome.value.type = "stream"
    /\ Len(conversationHistory) = 1
    /\ conversationHistory[1].role = "user"

----------------------------------------------------------------------------
(* Claims about health monitoring *)

\* the number of failed checks at the end of the results, after the last success
RECURSIVE FailuresSinceSuccess(_)
FailuresSinceSuccess(results) ==
    IF results = << >> \/ results[Len(results)] THEN 0
    ELSE 1 + FailuresSinceSuccess(SubSeq(results, 1, Len(results) - 1))

\* C40: after any sequence of health checks the provider's consecutiveFailures
\* counter equals the number of checks that failed since the most recent successful
\* check (0 immediately after a success), and isHealthy reflects the outcome of the
\* latest check.
C40_FailureCounterAndLatestOutcome ==
    /\ health.status.consecutiveFailures = FailuresSinceSuccess(health.results)
    /\ health.results # << >>
          => health.status.isHealthy
                = (IF health.results[Len(health.results)] THEN "true" ELSE "false")
    /\ health.results = << >> => health.status.isHealthy = "null"

\* C40 witness: two checks failed, one succeeded, then one failed again: the counter
\* stands at 1 and the provider is reported unhealthy
C40_Witness ==
    /\ health.results = <<FALSE, FALSE, TRUE, FALSE>>
    /\ health.status.consecutiveFailures = 1
    /\ health.status.isHealthy = "false"
    /\ health.metrics.requestCount = 4

====
